---- MODULE Spec2Model ----
(***************************************************************************)
(* A model of hellgate-ws: the room actor (src/src/room.ts), the gateway's  *)
(* per-connection bridging state machine (src/src/index.ts) and the game   *)
(* directory (directory.ts).                                               *)
(*                                                                         *)
(* Conventions                                                             *)
(*  - A JS Map is a function whose DOMAIN is the set of keys.  The order   *)
(*    a Map iterates in only decides the order of sends to different       *)
(*    sockets; sends are recorded per receiving socket, so it is dropped.  *)
(*  - A socket number names one WebSocket object at a time: once its close *)
(*    or error event has been handled the number may be attached again as  *)
(*    a new connection.                                                    *)
(*  - undefined / null numbers are Undef (-1); an absent RoomState is      *)
(*    NoRoom; an empty slot is NoPlayer.                                   *)
(*  - Strings are sequences of 8-bit character codes, as the codec reads    *)
(*    them (readString), so the room-name grammar is checked per char.     *)
(*  - An encoded frame is written as the packet record the encoder was     *)
(*    handed, with each field truncated the way encodePacket truncates it. *)
(*  - A decoded frame is the flat packet sequence decodeTopLevel returns,  *)
(*    Undecodable when it returns null, DecodeThrows when it throws.       *)
(***************************************************************************)
EXTENDS Integers, Sequences, FiniteSets, TLC

VARIABLES
    \* ---- room actor (class GameRoom) ----
    room,           \* this.room : RoomState or NoRoom
    slots,          \* this.slots : [0..MAX_PLAYERS-1 -> Player or NoPlayer]
    bySocket,       \* this.bySocket : Map<WebSocket, Player>
    closeReason,    \* this.closeReason : Map<WebSocket, number>
    invalidCounts,  \* this.invalidCounts : Map<WebSocket, number>
    rateState,      \* this.rateState : Map<WebSocket, count in the current window>
    floodLogged,    \* this.floodLogged : Set<WebSocket>
    sock,           \* per socket: "none", "open", "closing" (the room called close()),
                    \* "errored" (its error event has fired, its close event is due)
    sent,           \* ws.send calls of the last room event: receiver -> <<[msg, ok]>>
    closes,         \* ws.close calls that took effect in the last room event: ws -> code
    dirCalls,       \* directory RPCs issued during the last room event, in order
    acceptsZero,    \* history: JoinAccept packets with index 0 sent so far (capped)
    \* ---- gateway, one client connection (the closure of fetch in index.ts) ----
    clientVersion,  \* number or Undef
    doWs,           \* the bridge handle: an index into doSockets, or 0 for null
    roomName,       \* string or NoName
    pending,        \* Array<ArrayBuffer>: the buffered frames
    pendingBytes,
    pendingUnknownMessages,
    pendingUnknownBytes,
    closed,
    overflowLogged,
    timeoutId,      \* TRUE while the connect timeout is armed
    inflight,       \* suspended message handlers: the fetches they await
    doSockets,      \* room-side sockets opened so far: <<[name, state, got, code]>>
    toClient,       \* frames sent on serverWs, in order
    serverWs,       \* [state |-> "open"/"closed"/"gone", code |-> close code or Undef]
    recvCount,      \* binary frames received from the client so far
    \* ---- directory actor (class GameDirectory) and the requests on their way to it
    games,          \* this.games : Map<string, GameInfo>
    dirInflight,    \* directory fetches not yet handled, in issue order
    listed,         \* the /list.bin response of the last directory event, or NoList
    \* ---- the codec (packet.ts) at work on one frame ----
    framed,         \* what the frame on the wire was built from: a packet, or a batch
    wire,           \* the frame: a sequence of bytes
    decoded         \* decodeTopLevel(wire) once it has run, NotDecoded before

roomVars == <<room, slots, bySocket, closeReason, invalidCounts, rateState,
              floodLogged, sock, sent, closes, dirCalls, acceptsZero>>

gwVars == <<clientVersion, doWs, roomName, pending, pendingBytes,
            pendingUnknownMessages, pendingUnknownBytes, closed, overflowLogged,
            timeoutId, inflight, doSockets, toClient, serverWs, recvCount>>

dirVars == <<games, dirInflight, listed>>

codecVars == <<framed, wire, decoded>>

vars == <<roomVars, gwVars, dirVars, codecVars>>

----------------------------------------------------------------------------
(* Program constants *)

MAX_PLAYERS == 4
MAX_INVALID_PACKETS == 2
MAX_MESSAGES_PER_WINDOW == 512

MAX_PENDING_MESSAGES == 256
MAX_PENDING_BYTES == 14680064
MAX_PENDING_UNKNOWN_MESSAGES == 32
MAX_PENDING_UNKNOWN_BYTES == 1048576

\* enum PacketCode
Batch == 0
Message == 1
Turn == 2
DropPlayer == 3
JoinAccept == 18
Connect == 19
Disconnect == 20
JoinReject == 21
GameList == 33
CreateGame == 34
JoinGame == 35
LeaveGame == 36
ClientInfo == 49
ServerInfo == 50

\* enum RejectionReason
JOIN_SUCCESS == 0
JOIN_ALREADY_IN_GAME == 1
JOIN_GAME_NOT_FOUND == 2
JOIN_INCORRECT_PASSWORD == 3
JOIN_VERSION_MISMATCH == 4
JOIN_GAME_FULL == 5
CREATE_GAME_EXISTS == 6

----------------------------------------------------------------------------
(* Values *)

Undef == -1
NoRoom == [none |-> TRUE]
NoPlayer == [none |-> TRUE]
Undecodable == <<[none |-> TRUE]>>
\* decodeTopLevel of a frame that ends inside a field read without a length check:
\* the DataView getter throws a RangeError instead of returning null.
DecodeThrows == <<[throws |-> TRUE]>>
NoName == <<0>>
NoSniff == [none |-> TRUE]
NoLobby == [none |-> TRUE]

\* x >>> 0: every number that reaches it is a decoded u32 field (or a product of
\* one), already in 0 .. 2^32 - 1, where the conversion changes nothing; the
\* values of the model stay far below TLC's 2^31 integer limit.
U32(x) == x
U8(x) == x % 256

SlotIds == 0 .. (MAX_PLAYERS - 1)

MapSet(m, k, v) == [x \in (DOMAIN m) \cup {k} |-> IF x = k THEN v ELSE m[x]]
MapDel(m, k) == [x \in (DOMAIN m) \ {k} |-> m[x]]
EmptyMap == [x \in {} |-> 0]

MapGet(m, k, dflt) == IF k \in DOMAIN m THEN m[k] ELSE dflt

\* A finite set of numbers in ascending order.
RECURSIVE Ascending(_, _)
Ascending(S, acc) ==
    IF S = {} THEN acc
    ELSE LET k == CHOOSE x \in S : \A y \in S : x <= y
         IN Ascending(S \ {k}, Append(acc, k))
MapKeys(m) == Ascending(DOMAIN m, <<>>)

\* Character classes of ROOM_NAME_RE: A-Z a-z 0-9 _ -
NameChars == (65 .. 90) \cup (97 .. 122) \cup (48 .. 57) \cup {95, 45}

isValidRoomNameAny(name) == TRUE

\* ROOM_NAME_RE.test(name), ROOM_NAME_RE = /^[A-Za-z0-9_-]{1,32}$/
isValidRoomName(name) ==
    /\ Len(name) >= 1
    /\ Len(name) <= 32
    /\ \A i \in 1 .. Len(name) : name[i] \in NameChars

\* Encoders: the packet record handed to encodePacket, fields truncated as it does.
encodeJoinAcceptZero(cookie, index, seed, difficulty) ==
    [code |-> JoinAccept, cookie |-> U32(cookie), index |-> 0,
     seed |-> U32(seed), difficulty |-> U32(difficulty)]
encodeJoinAccept(cookie, index, seed, difficulty) ==
    [code |-> JoinAccept, cookie |-> U32(cookie), index |-> U8(index),
     seed |-> U32(seed), difficulty |-> U32(difficulty)]
encodeJoinRejectNoCookie(cookie, reason) ==
    [code |-> JoinReject, cookie |-> 0, reason |-> U8(reason)]
encodeJoinReject(cookie, reason) ==
    [code |-> JoinReject, cookie |-> U32(cookie), reason |-> U8(reason)]
encodeConnect(id) == [code |-> Connect, id |-> U8(id)]
encodeDisconnect(id, reason) ==
    [code |-> Disconnect, id |-> U8(id), reason |-> U32(reason)]
encodeMessage(id, payload) == [code |-> Message, id |-> U8(id), payload |-> payload]
encodeTurn(id, turn) == [code |-> Turn, id |-> U8(id), turn |-> U32(turn)]

----------------------------------------------------------------------------
(* Room actor: the handlers as functions of the actor state.               *)
(* st is the record of the actor's fields plus the outputs of the event.   *)

RoomSt ==
    [room |-> room, slots |-> slots, bySocket |-> bySocket,
     closeReason |-> closeReason, invalidCounts |-> invalidCounts,
     rateState |-> rateState, floodLogged |-> floodLogged, sock |-> sock,
     sent |-> EmptyMap, closes |-> EmptyMap, dirCalls |-> <<>>]

\* ws.send(buf) goes out (ok) while close() has not been called on the socket;
\* after close() the call fails and nothing is sent.
CanSend(st, ws) == st.sock[ws] = "open"
wsSend(st, ws, buf) ==
    [st EXCEPT !.sent = MapSet(@, ws, Append(MapGet(@, ws, <<>>),
                                             [msg |-> buf, ok |-> CanSend(st, ws)]))]

\* try { ws.close(code, ...) } catch {}
wsClose(st, ws, code) ==
    IF st.sock[ws] = "open"
    THEN [st EXCEPT !.sock[ws] = "closing", !.closes = MapSet(@, ws, code)]
    ELSE st

setCloseReason(st, ws, r) == [st EXCEPT !.closeReason = MapSet(@, ws, r)]

allocSlotZero(sl) == 0

allocSlotWrap(sl) ==
    IF \E j \in SlotIds : sl[j] = NoPlayer
    THEN CHOOSE j \in SlotIds :
            /\ sl[j] = NoPlayer
            /\ \A k \in SlotIds : sl[k] = NoPlayer => j <= k
    ELSE 0

\* for (i = 0; i < MAX_PLAYERS; i++) if (!slots[i]) return i; return null
allocSlot(sl) ==
    IF \E j \in SlotIds : sl[j] = NoPlayer
    THEN CHOOSE j \in SlotIds :
            /\ sl[j] = NoPlayer
            /\ \A k \in SlotIds : sl[k] = NoPlayer => j <= k
    ELSE Undef

slotsUsed(sl) == Cardinality({i \in SlotIds : sl[i] # NoPlayer})

RECURSIVE sendEach(_, _, _, _)
sendEach(st, keys, except, buf) ==
    IF keys = <<>> THEN st
    ELSE LET k == Head(keys)
             p == st.bySocket[k]
             st1 == IF k = except \/ p.id < 0 THEN st ELSE wsSend(st, p.ws, buf)
         IN sendEach(st1, Tail(keys), except, buf)

\* broadcast(buf): every bySocket record with id >= 0, in Map order.
broadcast(st, buf) == sendEach(st, MapKeys(st.bySocket), Undef, buf)

upsertDirectory(st) ==
    IF st.room = NoRoom THEN st
    ELSE [st EXCEPT !.dirCalls =
            Append(@, [op |-> "upsert", name |-> st.room.name, type |-> st.room.type,
                       slotsUsed |-> slotsUsed(st.slots), slotsTotal |-> MAX_PLAYERS])]

removeFromDirectory(st, name) ==
    [st EXCEPT !.dirCalls = Append(@, [op |-> "remove", name |-> name])]

alreadyJoined(st, ws) == ws \in DOMAIN st.bySocket /\ st.bySocket[ws].id >= 0

versionOfRoom(st, ws) == IF st.room = NoRoom THEN 1 ELSE st.room.version

versionOf(st, ws) ==
    IF ws \in DOMAIN st.bySocket THEN st.bySocket[ws].clientVersion ELSE Undef

\* The tail shared by onCreateGame and onJoinGame once a slot is allocated.
admit(st, ws, pkt, slot, version, thr) ==
    LET player == [id |-> slot, ws |-> ws, cookie |-> pkt.cookie,
                   clientVersion |-> version]
        st1 == [st EXCEPT !.bySocket = MapSet(@, ws, player),
                          !.slots[slot] = player]
        st2 == wsSend(st1, ws, encodeJoinAccept(pkt.cookie, slot, st1.room.seed,
                                                st1.room.difficulty))
    IN  IF ~CanSend(st1, ws) /\ thr
        THEN st2    \* ws.send throws: the async handler rejects here
        ELSE upsertDirectory(broadcast(st2, encodeConnect(slot)))

onCreateGame(st, ws, pkt, seed, thr) ==
    IF ~isValidRoomName(pkt.name)
    THEN wsClose(setCloseReason(st, ws, 0), ws, 1002)
    ELSE IF alreadyJoined(st, ws)
    THEN wsSend(st, ws, encodeJoinReject(pkt.cookie, JOIN_ALREADY_IN_GAME))
    ELSE IF versionOf(st, ws) = Undef
    THEN wsSend(st, ws, encodeJoinReject(pkt.cookie, JOIN_VERSION_MISMATCH))
    ELSE IF st.room # NoRoom
    THEN wsSend(st, ws, encodeJoinReject(pkt.cookie, CREATE_GAME_EXISTS))
    ELSE IF allocSlot(st.slots) = Undef
    THEN wsSend(st, ws, encodeJoinReject(pkt.cookie, JOIN_GAME_FULL))
    ELSE LET hostVersion == versionOf(st, ws)
             rm == [name |-> pkt.name, password |-> pkt.password,
                    difficulty |-> U32(pkt.difficulty), seed |-> seed,
                    type |-> 0, version |-> U32(hostVersion)]
         IN admit([st EXCEPT !.room = rm], ws, pkt, allocSlot(st.slots),
                  hostVersion, thr)

onJoinGame(st, ws, pkt, thr) ==
    IF ~isValidRoomName(pkt.name)
    THEN wsClose(setCloseReason(st, ws, 0), ws, 1002)
    ELSE IF alreadyJoined(st, ws)
    THEN wsSend(st, ws, encodeJoinReject(pkt.cookie, JOIN_ALREADY_IN_GAME))
    ELSE IF st.room = NoRoom
    THEN wsSend(st, ws, encodeJoinReject(pkt.cookie, JOIN_GAME_NOT_FOUND))
    ELSE IF pkt.name # st.room.name
    THEN wsSend(st, ws, encodeJoinReject(pkt.cookie, JOIN_GAME_NOT_FOUND))
    ELSE IF st.room.password # pkt.password
    THEN wsSend(st, ws, encodeJoinReject(pkt.cookie, JOIN_INCORRECT_PASSWORD))
    ELSE IF versionOf(st, ws) = Undef \/ U32(versionOf(st, ws)) # U32(st.room.version)
    THEN wsSend(st, ws, encodeJoinReject(pkt.cookie, JOIN_VERSION_MISMATCH))
    ELSE IF allocSlot(st.slots) = Undef
    THEN wsSend(st, ws, encodeJoinReject(pkt.cookie, JOIN_GAME_FULL))
    ELSE admit(st, ws, pkt, allocSlot(st.slots), versionOf(st, ws), thr)

disconnectEachLast(st, ids, r) ==
    IF ids = <<>> THEN st
    ELSE broadcast(st, encodeDisconnect(ids[Len(ids)], r))

RECURSIVE disconnectEach(_, _, _)
disconnectEach(st, ids, r) ==
    IF ids = <<>> THEN st
    ELSE disconnectEach(broadcast(st, encodeDisconnect(Head(ids), r)), Tail(ids), r)

RECURSIVE closeEach(_, _, _)
closeEach(st, keys, r) ==
    IF keys = <<>> THEN st
    ELSE closeEach(wsClose(setCloseReason(st, Head(keys), r), Head(keys), 1000),
                   Tail(keys), r)

closeRoomAndKickAllKeepRoom(st, reason) ==
    [st EXCEPT !.bySocket = EmptyMap, !.slots = [i \in SlotIds |-> NoPlayer]]

closeRoomAndKickAllHostOnly(st, reason) ==
    [st EXCEPT !.slots[0] = NoPlayer, !.room = NoRoom]

closeRoomAndKickAll(st, reason) ==
    LET r == U32(reason)
        activeIds == Ascending({i \in SlotIds : st.slots[i] # NoPlayer}, <<>>)
        st1 == disconnectEach(st, activeIds, r)
        st2 == closeEach(st1, MapKeys(st1.bySocket), r)
        st3 == IF st2.room # NoRoom
               THEN removeFromDirectory([st2 EXCEPT !.room = NoRoom], st2.room.name)
               ELSE st2
    IN [st3 EXCEPT !.bySocket = EmptyMap,
                   !.slots = [i \in SlotIds |-> NoPlayer]]

onLeave(st, ws) ==
    IF ws \in DOMAIN st.bySocket /\ st.bySocket[ws].id = 0
    THEN closeRoomAndKickAll(st, 3)
    ELSE wsClose(setCloseReason(st, ws, 3), ws, 1000)

\* onDrop without the test of the sender
onDropAnySender(st, ws, pkt) ==
    LET id == U8(pkt.id)
        reason == U32(pkt.reason)
    IN IF id = 0 THEN closeRoomAndKickAll(st, reason)
       ELSE IF id \notin SlotIds \/ st.slots[id] = NoPlayer THEN st
       ELSE wsClose(setCloseReason(st, st.slots[id].ws, reason),
                    st.slots[id].ws, 1000)

onDrop(st, ws, pkt) ==
    IF ~(ws \in DOMAIN st.bySocket /\ st.bySocket[ws].id = 0)
    THEN wsClose(setCloseReason(st, ws, 0), ws, 1008)
    ELSE LET id == U8(pkt.id)
             reason == U32(pkt.reason)
         IN IF id = 0 THEN closeRoomAndKickAll(st, reason)
            ELSE IF id \notin SlotIds \/ st.slots[id] = NoPlayer THEN st
            ELSE wsClose(setCloseReason(st, st.slots[id].ws, reason),
                         st.slots[id].ws, 1000)

onMessageAsSent(st, ws, pkt) ==
    IF ~(ws \in DOMAIN st.bySocket /\ st.bySocket[ws].id >= 0) THEN st
    ELSE sendEach(st, MapKeys(st.bySocket), ws, encodeMessage(pkt.id, pkt.payload))

onMessage(st, ws, pkt) ==
    IF ~(ws \in DOMAIN st.bySocket /\ st.bySocket[ws].id >= 0) THEN st
    ELSE LET sender == st.bySocket[ws]
             targetId == U8(pkt.id)
             buf == encodeMessage(sender.id, pkt.payload)
         IN IF targetId = 255
            THEN sendEach(st, MapKeys(st.bySocket), ws, buf)
            ELSE IF targetId \notin SlotIds \/ st.slots[targetId] = NoPlayer THEN st
            ELSE wsSend(st, st.slots[targetId].ws, buf)

\* onTurn through broadcast(): the sender is not skipped
onTurnToAll(st, ws, pkt) ==
    IF ~(ws \in DOMAIN st.bySocket /\ st.bySocket[ws].id >= 0) THEN st
    ELSE broadcast(st, encodeTurn(st.bySocket[ws].id, pkt.turn))

onTurn(st, ws, pkt) ==
    IF ~(ws \in DOMAIN st.bySocket /\ st.bySocket[ws].id >= 0) THEN st
    ELSE sendEach(st, MapKeys(st.bySocket), ws,
                  encodeTurn(st.bySocket[ws].id, pkt.turn))

\* case PacketCode.ClientInfo: the record is the object the slot table holds too.
onClientInfo(st, ws, pkt) ==
    IF ws \notin DOMAIN st.bySocket THEN st
    ELSE LET p == st.bySocket[ws]
         IN [st EXCEPT
               !.bySocket[ws].clientVersion = pkt.version,
               !.slots = [i \in SlotIds |->
                            IF p.id >= 0 /\ @[i] # NoPlayer /\ @[i].ws = ws
                            THEN [@[i] EXCEPT !.clientVersion = pkt.version]
                            ELSE @[i]]]

dispatch(st, ws, pkt, seed, thr) ==
    CASE pkt.code = ClientInfo -> onClientInfo(st, ws, pkt)
      [] pkt.code = CreateGame -> onCreateGame(st, ws, pkt, seed, thr)
      [] pkt.code = JoinGame -> onJoinGame(st, ws, pkt, thr)
      [] pkt.code = LeaveGame -> onLeave(st, ws)
      [] pkt.code = DropPlayer -> onDrop(st, ws, pkt)
      [] pkt.code = Message -> onMessage(st, ws, pkt)
      [] pkt.code = Turn -> onTurn(st, ws, pkt)
      [] OTHER -> st

\* for (const pkt of packets) switch (pkt.code) ...: the packets in order, each
\* on the state the one before it left.  The list is folded by halves, and the
\* state after the first half is evaluated (mid = mid) before the second half
\* runs on it, so that a frame of hundreds of packets does not nest as deep as
\* it is long.
RECURSIVE dispatchAll(_, _, _, _, _)
dispatchAll(st, ws, pkts, seed, thr) ==
    IF pkts = <<>> THEN st
    ELSE IF Len(pkts) = 1 THEN dispatch(st, ws, pkts[1], seed, thr)
    ELSE LET h == Len(pkts) \div 2
             mid == dispatchAll(st, ws, SubSeq(pkts, 1, h), seed, thr)
         IN IF mid = mid
            THEN dispatchAll(mid, ws, SubSeq(pkts, h + 1, Len(pkts)), seed, thr)
            ELSE st

\* onSocketClose announcing every departure with reason 0
onSocketCloseNoReason(st, ws, reason) ==
    IF ws \notin DOMAIN st.bySocket THEN st
    ELSE LET p == st.bySocket[ws]
             st1 == [st EXCEPT !.bySocket = MapDel(@, ws)]
         IN IF p.id = 0 THEN closeRoomAndKickAll(st1, U32(reason))
            ELSE LET st2 == IF p.id >= 0 /\ p.id < MAX_PLAYERS
                               /\ st1.slots[p.id] # NoPlayer
                               /\ st1.slots[p.id].ws = ws
                            THEN broadcast([st1 EXCEPT !.slots[p.id] = NoPlayer],
                                           encodeDisconnect(p.id, 0))
                            ELSE st1
                 IN upsertDirectory(st2)

\* onSocketClose that leaves the record in bySocket
onSocketCloseKeepRecord(st, ws, reason) ==
    IF ws \notin DOMAIN st.bySocket THEN st
    ELSE LET p == st.bySocket[ws]
         IN IF p.id = 0 THEN closeRoomAndKickAll(st, U32(reason))
            ELSE LET st2 == IF p.id >= 0 /\ p.id < MAX_PLAYERS
                               /\ st.slots[p.id] # NoPlayer
                               /\ st.slots[p.id].ws = ws
                            THEN broadcast([st EXCEPT !.slots[p.id] = NoPlayer],
                                           encodeDisconnect(p.id, U32(reason)))
                            ELSE st
                 IN upsertDirectory(st2)

onSocketClose(st, ws, reason) ==
    IF ws \notin DOMAIN st.bySocket THEN st
    ELSE LET p == st.bySocket[ws]
             st1 == [st EXCEPT !.bySocket = MapDel(@, ws)]
         IN IF p.id = 0 THEN closeRoomAndKickAll(st1, U32(reason))
            ELSE LET st2 == IF p.id >= 0 /\ p.id < MAX_PLAYERS
                               /\ st1.slots[p.id] # NoPlayer
                               /\ st1.slots[p.id].ws = ws
                            THEN broadcast([st1 EXCEPT !.slots[p.id] = NoPlayer],
                                           encodeDisconnect(p.id, U32(reason)))
                            ELSE st1
                     still == \E i \in SlotIds : st2.slots[i] # NoPlayer
                 IN IF ~still /\ st2.room # NoRoom
                    THEN removeFromDirectory([st2 EXCEPT !.room = NoRoom],
                                             st2.room.name)
                    ELSE upsertDirectory(st2)

\* onBinary(ws, buf): pkts is decodeTopLevel(buf); expired is
\* (now - rate.windowStart > RATE_WINDOW_MS), the clock itself is not modelled.
onBinary(st, ws, pkts, expired, seed, thr) ==
    IF pkts = DecodeThrows THEN st    \* the listener throws, nothing is reached
    ELSE IF pkts = Undecodable
    THEN LET invalid == (IF ws \in DOMAIN st.invalidCounts
                         THEN st.invalidCounts[ws] ELSE 0) + 1
             st1 == [st EXCEPT !.invalidCounts = MapSet(@, ws, invalid)]
         IN IF invalid > MAX_INVALID_PACKETS
            THEN wsClose(setCloseReason(st1, ws, 0), ws, 1002)
            ELSE st1
    ELSE IF ws \notin DOMAIN st.rateState \/ expired
    THEN dispatchAll([st EXCEPT !.rateState = MapSet(@, ws, Len(pkts))],
                     ws, pkts, seed, thr)
    ELSE LET count == st.rateState[ws] + Len(pkts)
             st1 == [st EXCEPT !.rateState = MapSet(@, ws, count)]
         IN IF count > MAX_MESSAGES_PER_WINDOW
            THEN wsClose(setCloseReason([st1 EXCEPT !.floodLogged = @ \cup {ws}],
                                        ws, 0), ws, 1008)
            ELSE dispatchAll(st1, ws, pkts, seed, thr)

\* The "message" listener of attach(): the frame gate, then onBinary.
onWsMessage(st, ws, pkts, oversize, expired, seed, thr) ==
    IF oversize
    THEN wsClose(setCloseReason(st, ws, 0), ws, 1009)
    ELSE onBinary(st, ws, pkts, expired, seed, thr)

\* The "close" (dflt = 3) and "error" (dflt = 0) listeners of attach().
onWsEnd(st, ws, dflt) ==
    LET reason == IF ws \in DOMAIN st.closeReason THEN st.closeReason[ws] ELSE dflt
        st1 == [st EXCEPT !.closeReason = MapDel(@, ws),
                          !.invalidCounts = MapDel(@, ws),
                          !.rateState = MapDel(@, ws),
                          !.floodLogged = @ \ {ws},
                          !.sock[ws] = "none"]
    IN onSocketClose(st1, ws, reason)

----------------------------------------------------------------------------
(* Room actor: actions *)

\* The JoinAccept packets with index 0 that went out in one event.
Sends(snt) ==
    UNION {{[to |-> w, at |-> i, msg |-> snt[w][i].msg, ok |-> snt[w][i].ok] :
               i \in 1 .. Len(snt[w])} : w \in DOMAIN snt}

acceptZeroSends(snt) ==
    {s \in Sends(snt) : s.ok /\ s.msg.code = JoinAccept /\ s.msg.index = 0}

\* acceptsZero counts them over the actor's life, up to MaxAcceptsCounted.
MaxAcceptsCounted == 2
countUpTo(n, k) == IF n + k > MaxAcceptsCounted THEN MaxAcceptsCounted ELSE n + k

Commit(st) ==
    /\ room' = st.room
    /\ slots' = st.slots
    /\ bySocket' = st.bySocket
    /\ closeReason' = st.closeReason
    /\ invalidCounts' = st.invalidCounts
    /\ rateState' = st.rateState
    /\ floodLogged' = st.floodLogged
    /\ sock' = st.sock
    /\ sent' = st.sent
    /\ closes' = st.closes
    /\ dirCalls' = st.dirCalls
    /\ acceptsZero' = countUpTo(acceptsZero, Cardinality(acceptZeroSends(st.sent)))

Live(ws) == sock[ws] # "none"

\* fetch("/ws") -> attach(server): a fresh socket and its pre-join record.
\* The new socket takes the lowest free number (the numbers are only names).
Attach(ws) ==
    /\ sock[ws] = "none"
    /\ \A w \in DOMAIN sock : w < ws => sock[w] # "none"
    /\ Commit([RoomSt EXCEPT
                 !.sock[ws] = "open",
                 !.bySocket = MapSet(@, ws, [id |-> Undef, ws |-> ws,
                                             cookie |-> Undef,
                                             clientVersion |-> Undef])])

WsMessage(ws, pkts, oversize, expired, seed, thr) ==
    /\ Live(ws)
    /\ Commit(onWsMessage(RoomSt, ws, pkts, oversize, expired, seed, thr))

WsClose(ws) ==
    /\ Live(ws)
    /\ Commit(onWsEnd(RoomSt, ws, 3))

WsError(ws) ==
    /\ Live(ws)
    /\ Commit(onWsEnd(RoomSt, ws, 0))

----------------------------------------------------------------------------
(* Packets as decodeTopLevel delivers them *)

NameA == <<97>>
NameB == <<98>>
NameC == <<99>>
NameBad == <<46, 46>>
NameEmpty == <<>>
NameLong == [i \in 1 .. 33 |-> 97]
BadNames == {NameBad, NameEmpty, NameLong}
PwNone == <<>>
PwS == <<115>>

\* Each connection tags its requests with its own cookie.
CookieOf(ws) == 16 + ws

PktClientInfo(v) == [code |-> ClientInfo, version |-> v]
PktGameList == [code |-> GameList]
PktCreate(ws, n, p, d) ==
    [code |-> CreateGame, cookie |-> CookieOf(ws), name |-> n, password |-> p,
     difficulty |-> d]
PktJoin(ws, n, p) ==
    [code |-> JoinGame, cookie |-> CookieOf(ws), name |-> n, password |-> p]
PktLeave == [code |-> LeaveGame]
PktDrop(id, r) == [code |-> DropPlayer, id |-> id, reason |-> r]
PktMessage(id, pl) == [code |-> Message, id |-> id, payload |-> pl]
PktTurn(t) == [code |-> Turn, turn |-> t]

----------------------------------------------------------------------------
(* The codec (packet.ts) on bytes.  A frame is a sequence of bytes; offsets  *)
(* count from 0 as in the source, so the byte at offset o is b[o + 1].       *)
(* A decoder returns [r |-> "ok", ...], DecNull for null, or DecThrow when a *)
(* DataView or Uint8Array read runs past the end of the buffer (RangeError). *)

\* a code byte that is no PacketCode
Unknown == 99

DecNull == [r |-> "null"]
DecThrow == [r |-> "throw"]

pushU8(v) == <<v % 256>>
pushU16LE(v) == <<v % 256, (v \div 256) % 256>>
pushU32LE(v) ==
    <<v % 256, (v \div 256) % 256, (v \div 65536) % 256, (v \div 16777216) % 256>>

\* bytes[i] = s.charCodeAt(i) & 0xff; pushU8(bytes.length); the bytes
writeString(str) == pushU8(Len(str)) \o [i \in 1 .. Len(str) |-> str[i] % 256]

\* pushU32LE(b.length); the bytes
writeBytes(b) == pushU32LE(Len(b)) \o b

RECURSIVE writeGames(_)
writeGames(gs) ==
    IF gs = <<>> THEN <<>>
    ELSE pushU32LE(U32(Head(gs).type)) \o writeString(Head(gs).name)
         \o writeGames(Tail(gs))

has(pkt, f) == f \in DOMAIN pkt

encodePacket(pkt) ==
    pushU8(pkt.code) \o
    (CASE pkt.code \in {ServerInfo, ClientInfo} -> pushU32LE(U32(pkt.version))
       [] pkt.code = GameList ->
            LET gs == IF has(pkt, "games") THEN pkt.games ELSE <<>>
            IN pushU16LE(Len(gs)) \o writeGames(gs)
       [] pkt.code = JoinAccept ->
            pushU32LE(U32(pkt.cookie)) \o pushU8(pkt.index)
            \o pushU32LE(U32(pkt.seed)) \o pushU32LE(U32(pkt.difficulty))
       [] pkt.code = JoinReject -> pushU32LE(U32(pkt.cookie)) \o pushU8(pkt.reason)
       [] pkt.code = Connect -> pushU8(pkt.id)
       [] pkt.code \in {Disconnect, DropPlayer} ->
            pushU8(pkt.id) \o pushU32LE(U32(pkt.reason))
       [] pkt.code = Message -> pushU8(pkt.id) \o writeBytes(pkt.payload)
       [] pkt.code = Turn ->
            (IF has(pkt, "id") THEN pushU8(pkt.id) ELSE <<>>)
            \o pushU32LE(U32(pkt.turn))
       [] pkt.code = LeaveGame -> <<>>
       [] pkt.code = CreateGame ->
            pushU32LE(U32(pkt.cookie)) \o writeString(pkt.name)
            \o writeString(pkt.password) \o pushU32LE(U32(pkt.difficulty))
       [] pkt.code = JoinGame ->
            pushU32LE(U32(pkt.cookie)) \o writeString(pkt.name)
            \o writeString(pkt.password)
       [] OTHER -> <<>>)

\* view.getUint8 / getUint16 / getUint32 (little endian) at offset o, in bounds
canRead(b, o, n) == o + n <= Len(b)
u8(b, o) == b[o + 1]
u16(b, o) == b[o + 1] + 256 * b[o + 2]
\* getUint32 without the littleEndian flag
u32BigEndian(b, o) ==
    16777216 * b[o + 1] + 65536 * b[o + 2] + 256 * b[o + 3] + b[o + 4]
u32(b, o) == b[o + 1] + 256 * b[o + 2] + 65536 * b[o + 3] + 16777216 * b[o + 4]

readString(b, o) ==
    IF ~canRead(b, o, 1) THEN DecThrow
    ELSE LET len == u8(b, o)
         IN IF ~canRead(b, o + 1, len) THEN DecThrow
            ELSE [r |-> "ok", value |-> SubSeq(b, o + 2, o + 1 + len),
                  next |-> o + 1 + len]

readBytes(b, o) ==
    IF ~canRead(b, o, 4) THEN DecThrow
    ELSE LET len == u32(b, o)
         IN IF ~canRead(b, o + 4, len) THEN DecThrow
            ELSE [r |-> "ok", value |-> SubSeq(b, o + 5, o + 4 + len),
                  next |-> o + 4 + len]

decodeSingle(b, offset) ==
    IF ~canRead(b, offset, 1) THEN DecThrow
    ELSE
    LET code == u8(b, offset)
        o == offset + 1
    IN CASE code \in {ClientInfo, ServerInfo} ->
              IF ~canRead(b, o, 4) THEN DecThrow
              ELSE [r |-> "ok", pkt |-> [code |-> code, version |-> u32(b, o)],
                    next |-> o + 4]
         [] code \in {GameList, LeaveGame} ->
              [r |-> "ok", pkt |-> [code |-> code], next |-> o]
         [] code \in {CreateGame, JoinGame} ->
              IF ~canRead(b, o, 4) THEN DecThrow
              ELSE LET n1 == readString(b, o + 4)
                   IN IF n1.r # "ok" THEN DecThrow
                      ELSE LET n2 == readString(b, n1.next)
                           IN IF n2.r # "ok" THEN DecThrow
                              ELSE IF code = JoinGame
                              THEN [r |-> "ok",
                                    pkt |-> [code |-> code, cookie |-> u32(b, o),
                                             name |-> n1.value,
                                             password |-> n2.value],
                                    next |-> n2.next]
                              ELSE IF ~canRead(b, n2.next, 4) THEN DecThrow
                              ELSE [r |-> "ok",
                                    pkt |-> [code |-> code, cookie |-> u32(b, o),
                                             name |-> n1.value,
                                             password |-> n2.value,
                                             difficulty |-> u32(b, n2.next)],
                                    next |-> n2.next + 4]
         [] code = JoinAccept ->
              IF ~canRead(b, o, 13) THEN DecThrow
              ELSE [r |-> "ok",
                    pkt |-> [code |-> code, cookie |-> u32(b, o), index |-> u8(b, o + 4),
                             seed |-> u32(b, o + 5), difficulty |-> u32(b, o + 9)],
                    next |-> o + 13]
         [] code = JoinReject ->
              IF ~canRead(b, o, 5) THEN DecThrow
              ELSE [r |-> "ok",
                    pkt |-> [code |-> code, cookie |-> u32(b, o), reason |-> u8(b, o + 4)],
                    next |-> o + 5]
         [] code = Connect ->
              IF ~canRead(b, o, 1) THEN DecThrow
              ELSE [r |-> "ok", pkt |-> [code |-> code, id |-> u8(b, o)], next |-> o + 1]
         [] code \in {Disconnect, DropPlayer} ->
              IF ~canRead(b, o, 5) THEN DecThrow
              ELSE [r |-> "ok",
                    pkt |-> [code |-> code, id |-> u8(b, o), reason |-> u32(b, o + 1)],
                    next |-> o + 5]
         [] code = Message ->
              IF ~canRead(b, o, 1) THEN DecThrow
              ELSE LET bs == readBytes(b, o + 1)
                   IN IF bs.r # "ok" THEN DecThrow
                      ELSE [r |-> "ok",
                            pkt |-> [code |-> code, id |-> u8(b, o), payload |-> bs.value],
                            next |-> bs.next]
         [] code = Turn ->
              IF o + 4 > Len(b) THEN DecNull
              ELSE [r |-> "ok", pkt |-> [code |-> code, turn |-> u32(b, o)],
                    next |-> o + 4]
         [] OTHER -> DecNull

\* decodeFromOffsetFlat and the loop over a batch's count; both return
\* [r |-> "ok", pkts, next], DecNull or DecThrow.
RECURSIVE decodeFromOffsetFlat(_, _)
RECURSIVE decodeBatchItems(_, _, _, _)
RECURSIVE decodeBatchItemsReversed(_, _, _, _)
\* the loop with out.unshift(...r.pkts) in place of out.push(...r.pkts)
decodeBatchItemsReversed(b, offset, count, out) ==
    IF count = 0 THEN [r |-> "ok", pkts |-> out, next |-> offset]
    ELSE LET res == decodeFromOffsetFlat(b, offset)
         IN IF res.r # "ok" THEN res
            ELSE decodeBatchItemsReversed(b, res.next, count - 1, res.pkts \o out)

decodeBatchItems(b, offset, count, out) ==
    IF count = 0 THEN [r |-> "ok", pkts |-> out, next |-> offset]
    ELSE LET res == decodeFromOffsetFlat(b, offset)
         IN IF res.r # "ok" THEN res
            ELSE decodeBatchItems(b, res.next, count - 1, out \o res.pkts)

decodeFromOffsetFlat(b, offset) ==
    IF ~canRead(b, offset, 1) THEN DecThrow
    ELSE IF u8(b, offset) # Batch
    THEN LET one == decodeSingle(b, offset)
         IN IF one.r # "ok" THEN one
            ELSE [r |-> "ok", pkts |-> <<one.pkt>>, next |-> one.next]
    ELSE IF offset + 1 + 2 > Len(b) THEN DecNull
    ELSE decodeBatchItems(b, offset + 3, u16(b, offset + 1), <<>>)

\* decodeTopLevel(buf): the packets, Undecodable for null, DecodeThrows for a throw
decodeTopLevel(b) ==
    IF Len(b) < 1 THEN Undecodable
    ELSE LET res == decodeFromOffsetFlat(b, 0)
         IN IF res.r = "ok" THEN res.pkts
            ELSE IF res.r = "null" THEN Undecodable
            ELSE DecodeThrows

NotDecoded == <<[pending |-> TRUE]>>
NoFrame == [none |-> TRUE]

CodecInit ==
    /\ framed = NoFrame
    /\ wire = <<>>
    /\ decoded = NotDecoded

\* A frame a peer builds: clientFrame(pkt) for a packet, and for a batch
\* [batch |-> items] the layout decodeFromOffsetFlat reads: the Batch code, the
\* number of items as u16, then the frame of each item (itself possibly a batch).
RECURSIVE frameOf(_)
RECURSIVE framesOf(_)
framesOf(items) ==
    IF items = <<>> THEN <<>> ELSE frameOf(Head(items)) \o framesOf(Tail(items))

\* A GameList request is the code alone (decodeSingle reads nothing after it);
\* every other packet a client sends has the layout encodePacket writes.
clientFrame(pkt) ==
    IF pkt.code = GameList /\ ~has(pkt, "games") THEN pushU8(GameList)
    ELSE encodePacket(pkt)

frameOf(t) ==
    IF has(t, "batch")
    THEN pushU8(Batch) \o pushU16LE(Len(t.batch)) \o framesOf(t.batch)
    ELSE clientFrame(t)

\* The caller builds a frame from one packet.
EncodeOne(pkt) ==
    /\ framed' = pkt
    /\ wire' = encodePacket(pkt)
    /\ decoded' = NotDecoded
    /\ UNCHANGED <<roomVars, gwVars, dirVars>>

\* A peer builds a batch frame.
EncodeBatch(t) ==
    /\ framed' = t
    /\ wire' = frameOf(t)
    /\ decoded' = NotDecoded
    /\ UNCHANGED <<roomVars, gwVars, dirVars>>

\* Only the first n bytes of the frame arrive.
Truncate(n) ==
    /\ framed # NoFrame
    /\ n < Len(wire)
    /\ wire' = SubSeq(wire, 1, n)
    /\ decoded' = NotDecoded
    /\ UNCHANGED <<roomVars, gwVars, dirVars, framed>>

\* The receiver decodes the frame.
DecodeWire ==
    /\ decoded = NotDecoded
    /\ decoded' = decodeTopLevel(wire)
    /\ UNCHANGED <<roomVars, gwVars, dirVars, framed, wire>>

----------------------------------------------------------------------------
(* Gateway: the closure of one client connection (index.ts, fetch).         *)
(* A frame is [seq, pkts, len]: seq numbers the client's frames in arrival  *)
(* order, pkts is what decodeTopLevel makes of the bytes, len is byteLength.*)

GwSt ==
    [clientVersion |-> clientVersion, doWs |-> doWs, roomName |-> roomName,
     pending |-> pending, pendingBytes |-> pendingBytes,
     pendingUnknownMessages |-> pendingUnknownMessages,
     pendingUnknownBytes |-> pendingUnknownBytes, closed |-> closed,
     overflowLogged |-> overflowLogged, timeoutId |-> timeoutId,
     inflight |-> inflight, doSockets |-> doSockets, toClient |-> toClient,
     serverWs |-> serverWs, recvCount |-> recvCount]

\* for (const p of pkts) { if (p.code === ...) out.x = ... }: a later packet of a
\* kind overwrites what an earlier one set.
RECURSIVE sniffFold(_, _)
sniffFold(out, pkts) ==
    IF pkts = <<>> THEN out
    ELSE LET p == Head(pkts)
             o1 == IF p.code = ClientInfo
                   THEN [out EXCEPT !.clientInfoVersion = p.version] ELSE out
             o2 == IF p.code = GameList
                   THEN [o1 EXCEPT !.wantsGameList = TRUE] ELSE o1
             o3 == IF p.code = CreateGame
                   THEN [o2 EXCEPT !.create = [cookie |-> p.cookie, name |-> p.name]]
                   ELSE o2
             o4 == IF p.code = JoinGame
                   THEN [o3 EXCEPT !.join = [cookie |-> p.cookie, name |-> p.name]]
                   ELSE o3
         IN sniffFold(o4, Tail(pkts))

sniffLobbyAction(pkts) ==
    IF pkts = Undecodable THEN NoSniff
    ELSE sniffFold([clientInfoVersion |-> Undef, wantsGameList |-> FALSE,
                    create |-> NoLobby, join |-> NoLobby], pkts)

closeAll(g, code) ==
    IF g.closed THEN g
    ELSE [g EXCEPT
            !.closed = TRUE,
            !.pending = <<>>,
            !.pendingBytes = 0,
            !.pendingUnknownMessages = 0,
            !.pendingUnknownBytes = 0,
            !.timeoutId = FALSE,
            !.serverWs = IF @.state = "open"
                         THEN [state |-> "closed", code |-> code] ELSE @,
            !.doSockets = IF g.doWs # 0 /\ @[g.doWs].state = "open"
                          THEN [@ EXCEPT ![g.doWs].state = "closed",
                                         ![g.doWs].code = code]
                          ELSE @]

startConnectTimeoutNever(g) == g

startConnectTimeout(g) == [g EXCEPT !.timeoutId = TRUE]

handleOverflowAsInvalid(g) == closeAll([g EXCEPT !.overflowLogged = TRUE], 1002)

handleOverflow(g) == closeAll([g EXCEPT !.overflowLogged = TRUE], 1009)

enqueuePendingEager(g, buf, unknown) ==
    LET g1 == [g EXCEPT
                 !.pending = Append(@, buf),
                 !.pendingBytes = @ + buf.len,
                 !.pendingUnknownMessages = IF unknown THEN @ + 1 ELSE @,
                 !.pendingUnknownBytes = IF unknown THEN @ + buf.len ELSE @]
    IN IF g1.pendingUnknownMessages >= MAX_PENDING_UNKNOWN_MESSAGES
       THEN closeAll(g1, 1002)
       ELSE g1

enqueuePending(g, buf, unknown) ==
    LET g1 == [g EXCEPT
                 !.pending = Append(@, buf),
                 !.pendingBytes = @ + buf.len,
                 !.pendingUnknownMessages = IF unknown THEN @ + 1 ELSE @,
                 !.pendingUnknownBytes = IF unknown THEN @ + buf.len ELSE @]
    IN IF Len(g1.pending) > MAX_PENDING_MESSAGES
          \/ g1.pendingBytes > MAX_PENDING_BYTES
       THEN handleOverflow(g1)
       ELSE IF g1.pendingUnknownMessages > MAX_PENDING_UNKNOWN_MESSAGES
               \/ g1.pendingUnknownBytes > MAX_PENDING_UNKNOWN_BYTES
       THEN closeAll(g1, 1002)
       ELSE g1

\* doWs.send(buf) goes out while the room-side socket is open, and throws otherwise.
doCanSend(g) == g.doSockets[g.doWs].state = "open"
doSend(g, buf) == [g EXCEPT !.doSockets[g.doWs].got = Append(@, buf)]

pumpToDOBuffer(g, buf) ==
    [g EXCEPT !.pending = Append(@, buf), !.pendingBytes = @ + buf.len]

pumpToDO(g, buf) ==
    IF g.doWs = 0 THEN enqueuePending(g, buf, FALSE)
    ELSE IF doCanSend(g) THEN doSend(g, buf)
    ELSE closeAll(g, 1011)

\* serverWs.send(buf) in try/catch
clientSend(g, buf) ==
    IF g.serverWs.state = "open" THEN [g EXCEPT !.toClient = Append(@, buf)]
    ELSE closeAll(g, 1011)

\* attachBridge up to its await: the handler is suspended on the room fetch.
attachBridge(g, name, firstPacketToForward) ==
    IF g.doWs # 0 THEN g
    ELSE [g EXCEPT !.roomName = name,
                   !.inflight = @ \cup {[kind |-> "bridge", name |-> name,
                                         first |-> firstPacketToForward]}]

\* answerGameList up to its await: suspended on the directory fetch.
answerGameList(g, buf) ==
    [g EXCEPT !.inflight = @ \cup {[kind |-> "list", seq |-> buf.seq]}]

\* The serverWs "message" listener, for a binary frame.
onClientMessage(g0, buf) ==
    LET g == startConnectTimeout([g0 EXCEPT !.recvCount = @ + 1])
    IN IF g.doWs # 0 THEN pumpToDO(g, buf)
       ELSE IF buf.pkts = DecodeThrows THEN g    \* the handler rejects in the sniff
       ELSE LET sniff == sniffLobbyAction(buf.pkts)
            IN IF sniff = NoSniff THEN enqueuePending(g, buf, TRUE)
               ELSE IF sniff.wantsGameList THEN answerGameList(g, buf)
               ELSE LET g1 == IF sniff.clientInfoVersion # Undef
                              THEN [g EXCEPT !.clientVersion = sniff.clientInfoVersion]
                              ELSE g
                    IN IF sniff.create # NoLobby /\ sniff.create.name # <<>>
                       THEN attachBridge(g1, sniff.create.name, buf)
                       ELSE IF sniff.join # NoLobby /\ sniff.join.name # <<>>
                       THEN attachBridge(g1, sniff.join.name, buf)
                       ELSE enqueuePending(g1, buf, FALSE)

\* for (const b of pending.splice(0, pending.length)) { ... doWs.send(b) ... }
\* The result carries whether a send threw (the function then returns).
RECURSIVE drainPending(_, _)
drainPending(g, bufs) ==
    IF bufs = <<>> THEN [g |-> g, threw |-> FALSE]
    ELSE LET g1 == [g EXCEPT !.pendingBytes = @ - Head(bufs).len]
         IN IF doCanSend(g1) THEN drainPending(doSend(g1, Head(bufs)), Tail(bufs))
            ELSE [g |-> closeAll(g1, 1011), threw |-> TRUE]

\* attachBridge after its await.  outcome: "ws" (the response carries a socket),
\* "nows" (it does not), "throw" (the fetch rejects: nothing catches it).
attachBridgeResume(g0, e, outcome) ==
    LET g == [g0 EXCEPT !.inflight = @ \ {e}]
    IN CASE outcome = "throw" -> g
         [] outcome = "nows" ->
              closeAll([g EXCEPT !.pending = <<>>, !.pendingBytes = 0,
                                 !.pendingUnknownMessages = 0,
                                 !.pendingUnknownBytes = 0], 1011)
         [] OTHER ->
              LET g1 == [g EXCEPT
                           !.doSockets = Append(@, [name |-> e.name, state |-> "open",
                                                    got |-> <<>>, code |-> Undef]),
                           !.doWs = Len(g.doSockets) + 1,
                           !.timeoutId = FALSE,
                           !.pending = <<>>]
                  d == drainPending(g1, g.pending)
              IN IF d.threw THEN d.g
                 ELSE LET g2 == [d.g EXCEPT !.pendingBytes = 0,
                                            !.pendingUnknownMessages = 0,
                                            !.pendingUnknownBytes = 0]
                      IN IF doCanSend(g2) THEN doSend(g2, e.first)
                         ELSE closeAll(g2, 1011)

\* The directory's /list.bin answer, as an opaque frame.
ListBin == [seq |-> 0, pkts |-> <<PktGameList>>, len |-> 3]

answerGameListResume(g0, e, outcome) ==
    LET g == [g0 EXCEPT !.inflight = @ \ {e}]
    IN IF outcome = "throw" THEN g ELSE clientSend(g, ListBin)

----------------------------------------------------------------------------
(* Gateway: actions *)

GwCommit(g) ==
    /\ clientVersion' = g.clientVersion
    /\ doWs' = g.doWs
    /\ roomName' = g.roomName
    /\ pending' = g.pending
    /\ pendingBytes' = g.pendingBytes
    /\ pendingUnknownMessages' = g.pendingUnknownMessages
    /\ pendingUnknownBytes' = g.pendingUnknownBytes
    /\ closed' = g.closed
    /\ overflowLogged' = g.overflowLogged
    /\ timeoutId' = g.timeoutId
    /\ inflight' = g.inflight
    /\ doSockets' = g.doSockets
    /\ toClient' = g.toClient
    /\ serverWs' = g.serverWs
    /\ recvCount' = g.recvCount

\* serverWs.accept(); serverWs.send(encodeServerInfo(1)); the closure's variables.
GwInit ==
    /\ clientVersion = Undef
    /\ doWs = 0
    /\ roomName = NoName
    /\ pending = <<>>
    /\ pendingBytes = 0
    /\ pendingUnknownMessages = 0
    /\ pendingUnknownBytes = 0
    /\ closed = FALSE
    /\ overflowLogged = FALSE
    /\ timeoutId = FALSE
    /\ inflight = {}
    /\ doSockets = <<>>
    /\ toClient = <<[seq |-> 0, pkts |-> <<[code |-> ServerInfo, version |-> 1]>>,
                     len |-> 5]>>
    /\ serverWs = [state |-> "open", code |-> Undef]
    /\ recvCount = 0

\* A binary frame arrives from the client (frames already on their way still
\* arrive after the gateway has called close()).
ClientMessage(buf) ==
    /\ serverWs.state # "gone"
    /\ buf.seq = recvCount + 1
    /\ GwCommit(onClientMessage(GwSt, buf))

\* The room fetch of a suspended attachBridge settles.
BridgeFetchDone(e, outcome) ==
    /\ e \in inflight
    /\ e.kind = "bridge"
    /\ GwCommit(attachBridgeResume(GwSt, e, outcome))

\* The directory fetch of a suspended answerGameList settles.
ListFetchDone(e, outcome) ==
    /\ e \in inflight
    /\ e.kind = "list"
    /\ GwCommit(answerGameListResume(GwSt, e, outcome))

\* The setTimeout callback of startConnectTimeout.
ConnectTimeout ==
    /\ timeoutId
    /\ LET g == [GwSt EXCEPT !.timeoutId = FALSE]
       IN GwCommit(IF g.doWs = 0 THEN closeAll(g, 1011) ELSE g)

\* The close codes a peer's close event carries in the specifications.
CloseCodes == {1000, 1002, 1008, 1009}

\* serverWs "close" and "error" listeners.  The close listener takes no
\* argument: the event's code c is never read.
ClientClose(c) ==
    /\ serverWs.state # "gone"
    /\ GwCommit(closeAll([GwSt EXCEPT !.serverWs.state = "gone"], 1000))

ClientError ==
    /\ serverWs.state # "gone"
    /\ GwCommit(closeAll([GwSt EXCEPT !.serverWs.state = "gone"], 1011))

\* doWs "message" listener of room socket i, for a binary message.
RoomMessage(i, data) ==
    /\ i \in 1 .. Len(doSockets)
    /\ doSockets[i].state # "ended"
    /\ GwCommit(clientSend(GwSt, data))

\* doWs "close" and "error" listeners of room socket i.  The close listener
\* takes no argument: the event's code c is never read.
RoomClose(i, c) ==
    /\ i \in 1 .. Len(doSockets)
    /\ doSockets[i].state # "ended"
    /\ GwCommit(closeAll([GwSt EXCEPT !.doSockets[i].state = "ended"], 1000))

RoomError(i) ==
    /\ i \in 1 .. Len(doSockets)
    /\ doSockets[i].state # "ended"
    /\ GwCommit(closeAll([GwSt EXCEPT !.doSockets[i].state = "ended"], 1011))

----------------------------------------------------------------------------
(* Directory actor (directory.ts): games, and fetch for /upsert, /remove and *)
(* /list.bin.  rpc is the request a room sent: [op, name, ...body].          *)
(* A GameInfo carries ord, the position of its key in the Map's iteration    *)
(* order: a key keeps its position when set again, a new key goes last.      *)

NoList == [none |-> TRUE]

nextOrd(gm) == Cardinality(DOMAIN gm) + 1

\* games.delete(name): the keys behind it move up one position.
mapDelete(gm, name) ==
    IF name \notin DOMAIN gm THEN gm
    ELSE [n \in DOMAIN gm \ {name} |->
            IF gm[n].ord > gm[name].ord THEN [gm[n] EXCEPT !.ord = @ - 1] ELSE gm[n]]

\* POST /upsert: if (!body?.name) 400; games.set(body.name, {...body, updatedAt: now})
\* POST /remove: if (!name) 400; games.delete(name)
\* now is Date.now().
dirFetch(gm, rpc, now) ==
    IF rpc.name = <<>> THEN gm
    ELSE IF rpc.op = "upsert"
    THEN MapSet(gm, rpc.name, [name |-> rpc.name, type |-> rpc.type,
                               slotsUsed |-> rpc.slotsUsed,
                               slotsTotal |-> rpc.slotsTotal,
                               updatedAt |-> now,
                               ord |-> IF rpc.name \in DOMAIN gm
                                       THEN gm[rpc.name].ord ELSE nextOrd(gm)])
    ELSE mapDelete(gm, rpc.name)

RECURSIVE unsortedGames(_, _, _)
unsortedGames(gm, left, acc) ==
    IF left = {} THEN acc
    ELSE LET n == CHOOSE x \in left : \A y \in left : gm[x].ord <= gm[y].ord
         IN unsortedGames(gm, left \ {n}, Append(acc, gm[n]))

\* Array.from(games.values()).sort((a, b) => b.updatedAt - a.updatedAt): a stable
\* sort, so entries of equal updatedAt stay in the Map's order.
RECURSIVE sortedGames(_, _, _)
sortedGames(gm, left, acc) ==
    IF left = {} THEN acc
    ELSE LET n == CHOOSE x \in left :
                    \A y \in left :
                       \/ gm[x].updatedAt > gm[y].updatedAt
                       \/ /\ gm[x].updatedAt = gm[y].updatedAt
                          /\ gm[x].ord <= gm[y].ord
         IN sortedGames(gm, left \ {n}, Append(acc, gm[n]))

\* encodePacket({code: GameList, games}): a 16-bit count, then per game its
\* 32-bit type and its name.
encodeGameList(list) ==
    [code |-> GameList, count |-> Len(list) % 65536,
     games |-> [i \in 1 .. Len(list) |->
                  [type |-> U32(list[i].type), name |-> list[i].name]]]

\* GET /list.bin
listBin(gm) == encodeGameList(sortedGames(gm, DOMAIN gm, <<>>))

DirInit ==
    /\ games = EmptyMap
    /\ dirInflight = <<>>
    /\ listed = NoList

\* dir.fetch(...) in upsertDirectory / removeFromDirectory: the requests of the
\* room event just handled are on their way.
IssueDirCalls ==
    /\ dirInflight' = dirInflight \o dirCalls'
    /\ UNCHANGED <<games, listed>>

\* GameDirectory.fetch runs for the i-th request on its way.  Every call uses
\* a stub of its own and is not awaited before the next room event, so the
\* directory may handle the requests in any order.
\* Date.now() does not run backwards: now is not before any stored updatedAt.
DirFetch(i, now) ==
    /\ i \in 1 .. Len(dirInflight)
    /\ \A n \in DOMAIN games : games[n].updatedAt <= now
    /\ games' = dirFetch(games, dirInflight[i], now)
    /\ dirInflight' = [k \in 1 .. (Len(dirInflight) - 1) |->
                         IF k < i THEN dirInflight[k] ELSE dirInflight[k + 1]]
    /\ listed' = NoList
    /\ UNCHANGED <<roomVars, gwVars, codecVars>>

\* GameDirectory.fetch for GET /list.bin.
DirList ==
    /\ listed' = listBin(games)
    /\ UNCHANGED <<roomVars, gwVars, codecVars, games, dirInflight>>

\* Some room sends the directory a request.
DirRequest(rpc) ==
    /\ dirInflight' = Append(dirInflight, rpc)
    /\ UNCHANGED <<roomVars, gwVars, codecVars, games, listed>>

----------------------------------------------------------------------------
(* Specifications: the room actor *)

NumWs == 2

RoomSockets == 1 .. NumWs

RoomInitOn(WS) ==
    /\ room = NoRoom
    /\ slots = [i \in SlotIds |-> NoPlayer]
    /\ bySocket = EmptyMap
    /\ closeReason = EmptyMap
    /\ invalidCounts = EmptyMap
    /\ rateState = EmptyMap
    /\ floodLogged = {}
    /\ sock = [w \in WS |-> "none"]
    /\ sent = EmptyMap
    /\ closes = EmptyMap
    /\ dirCalls = <<>>
    /\ acceptsZero = 0

Versions == {1, 2}

\* A send after close() throws in the runtime the actor is written for; both
\* outcomes (throw, silent drop) are explored when the sender may be closing.
ThrowChoices(ws, pkts) ==
    IF sock[ws] = "open" /\ Len(pkts) = 1 THEN {TRUE} ELSE BOOLEAN

\* SpecRoom: the life of a room (create, join, leave, drop, close, error).
\* Every frame opens a new rate window; Math.random() returns 7.
LifePackets(ws) ==
    {PktClientInfo(v) : v \in Versions}
    \cup {PktCreate(ws, NameA, PwNone, 2), PktJoin(ws, NameA, PwNone),
          PktJoin(ws, NameA, PwS), PktJoin(ws, NameB, PwNone),
          PktLeave, PktDrop(1, 42)}
    \cup {PktJoin(ws, n, PwNone) : n \in BadNames}
    \cup {PktCreate(ws, n, PwNone, 2) : n \in BadNames}

LifeFrames(ws) == {<<p>> : p \in LifePackets(ws)}

RoomNext ==
    \/ /\ \E ws \in RoomSockets : Attach(ws)
       /\ UNCHANGED <<gwVars, dirVars, codecVars>>
    \/ /\ \E ws \in RoomSockets : \E pkts \in LifeFrames(ws) :
            \E thr \in ThrowChoices(ws, pkts) :
               WsMessage(ws, pkts, FALSE, TRUE, 7, thr)
       /\ UNCHANGED <<gwVars, dirVars, codecVars>>
    \/ /\ \E ws \in RoomSockets : WsClose(ws)
       /\ UNCHANGED <<gwVars, dirVars, codecVars>>
    \/ /\ \E ws \in RoomSockets : WsError(ws)
       /\ UNCHANGED <<gwVars, dirVars, codecVars>>

RoomInit == RoomInitOn(RoomSockets) /\ GwInit /\ DirInit /\ CodecInit

SpecRoom == RoomInit /\ [][RoomNext]_vars

\* SpecInvalid: two connections sending frames the decoder rejects, by
\* returning null or by throwing, between frames it accepts.  Each frame is
\* what decodeTopLevel makes of the bytes.  MaxInvalid bounds the frames counted
\* on one connection (frames keep arriving after close() until the close event).
MaxInvalid == 4

FailBytes ==
    {<<>>, <<Unknown>>, <<Turn, 1, 0>>, <<ClientInfo, 1, 0>>,
     frameOf([batch |-> <<PktTurn(1), [code |-> Unknown]>>]),
     SubSeq(frameOf(PktCreate(1, NameA, PwNone, 2)), 1, 7)}

InvalidFrames(ws) ==
    {decodeTopLevel(b) : b \in FailBytes}
    \cup {decodeTopLevel(frameOf(p)) :
             p \in {PktClientInfo(1), PktCreate(ws, NameA, PwNone, 2),
                    PktJoin(ws, NameA, PwNone)}}

InvalidNext ==
    \/ /\ \E ws \in RoomSockets : Attach(ws)
       /\ UNCHANGED <<gwVars, dirVars, codecVars>>
    \/ /\ \E ws \in RoomSockets : \E pkts \in InvalidFrames(ws) :
            \E thr \in ThrowChoices(ws, pkts) :
               /\ MapGet(invalidCounts, ws, 0) < MaxInvalid
               /\ WsMessage(ws, pkts, FALSE, TRUE, 7, thr)
       /\ UNCHANGED <<gwVars, dirVars, codecVars>>
    \/ /\ \E ws \in RoomSockets : WsClose(ws)
       /\ UNCHANGED <<gwVars, dirVars, codecVars>>

SpecInvalid == RoomInit /\ [][InvalidNext]_vars

\* SpecRate: two connections sending batches (a ClientInfo, then turns), half a
\* window's allowance or one packet more than a whole one, within the running
\* window or after it has expired.  MaxWindowCount bounds the count kept for a
\* window (frames keep arriving after close() until the close event).
MaxWindowCount == 1100

RateFrames ==
    {[i \in 1 .. (MAX_MESSAGES_PER_WINDOW \div 2) |->
         IF i = 1 THEN PktClientInfo(1) ELSE PktTurn(i)],
     [i \in 1 .. (MAX_MESSAGES_PER_WINDOW + 1) |->
         IF i = 1 THEN PktClientInfo(2) ELSE PktTurn(i)]}

RateNext ==
    \/ /\ \E ws \in RoomSockets : Attach(ws)
       /\ UNCHANGED <<gwVars, dirVars, codecVars>>
    \/ /\ \E ws \in RoomSockets : \E pkts \in RateFrames : \E expired \in BOOLEAN :
               /\ \/ expired
                  \/ MapGet(rateState, ws, 0) + Len(pkts) <= MaxWindowCount
               /\ WsMessage(ws, pkts, FALSE, expired, 7, TRUE)
       /\ UNCHANGED <<gwVars, dirVars, codecVars>>
    \/ /\ \E ws \in RoomSockets : WsClose(ws)
       /\ UNCHANGED <<gwVars, dirVars, codecVars>>

SpecRate == RoomInit /\ [][RateNext]_vars

\* SpecParty: three connections of one version that stay connected: they join
\* one room, broadcast messages, leave, and the host closes the room.  No
\* close event is delivered, so a socket the room has closed stays attached.
NumParty == 3

PartySockets == 1 .. NumParty

Payload == <<222, 173>>

PartyPackets(ws) ==
    {PktClientInfo(1), PktCreate(ws, NameA, PwNone, 2), PktJoin(ws, NameA, PwNone),
     PktMessage(255, Payload), PktLeave, PktDrop(0, 42)}

PartyNext ==
    \/ /\ \E ws \in PartySockets : Attach(ws)
       /\ UNCHANGED <<gwVars, dirVars, codecVars>>
    \/ /\ \E ws \in PartySockets : \E pkt \in PartyPackets(ws) :
            \E thr \in ThrowChoices(ws, <<pkt>>) :
               WsMessage(ws, <<pkt>>, FALSE, TRUE, 7, thr)
       /\ UNCHANGED <<gwVars, dirVars, codecVars>>

PartyInit == RoomInitOn(PartySockets) /\ GwInit /\ DirInit /\ CodecInit

SpecParty == PartyInit /\ [][PartyNext]_vars

\* SpecLeave: three connections that join one room and leave it in every way:
\* LeaveGame, DropPlayer from the host and from others, a close or an error
\* event with or without a close by the room before it.
LeavePackets(ws) ==
    {PktClientInfo(1), PktCreate(ws, NameA, PwNone, 2), PktJoin(ws, NameA, PwNone),
     PktLeave, PktDrop(1, 42)}

LeaveNext ==
    \/ /\ \E ws \in PartySockets : Attach(ws)
       /\ UNCHANGED <<gwVars, dirVars, codecVars>>
    \/ /\ \E ws \in PartySockets : \E pkt \in LeavePackets(ws) :
            \E thr \in ThrowChoices(ws, <<pkt>>) :
               WsMessage(ws, <<pkt>>, FALSE, TRUE, 7, thr)
       /\ UNCHANGED <<gwVars, dirVars, codecVars>>
    \/ /\ \E ws \in PartySockets : WsClose(ws)
       /\ UNCHANGED <<gwVars, dirVars, codecVars>>
    \/ /\ \E ws \in PartySockets : WsError(ws)
       /\ UNCHANGED <<gwVars, dirVars, codecVars>>

SpecLeave == PartyInit /\ [][LeaveNext]_vars

\* SpecTurn: three connections that join one room and send turns and messages,
\* before joining, as players, and after LeaveGame has closed their socket.
TurnPackets(ws) ==
    {PktClientInfo(1), PktCreate(ws, NameA, PwNone, 2), PktJoin(ws, NameA, PwNone),
     PktTurn(70000), PktMessage(255, Payload), PktMessage(0, Payload), PktLeave}

TurnNext ==
    \/ /\ \E ws \in PartySockets : Attach(ws)
       /\ UNCHANGED <<gwVars, dirVars, codecVars>>
    \/ /\ \E ws \in PartySockets : \E pkt \in TurnPackets(ws) :
            \E thr \in ThrowChoices(ws, <<pkt>>) :
               WsMessage(ws, <<pkt>>, FALSE, TRUE, 7, thr)
       /\ UNCHANGED <<gwVars, dirVars, codecVars>>

SpecTurn == PartyInit /\ [][TurnNext]_vars

\* SpecUnicast: three connections that join one room and address messages to
\* each slot: occupied, their own, empty (3) and outside the table (7).
UnicastTargets == {0, 1, 2, 3, 7}

UnicastPackets(ws) ==
    {PktClientInfo(1), PktCreate(ws, NameA, PwNone, 2), PktJoin(ws, NameA, PwNone),
     PktLeave}
    \cup {PktMessage(t, Payload) : t \in UnicastTargets}

UnicastNext ==
    \/ /\ \E ws \in PartySockets : Attach(ws)
       /\ UNCHANGED <<gwVars, dirVars, codecVars>>
    \/ /\ \E ws \in PartySockets : \E pkt \in UnicastPackets(ws) :
            \E thr \in ThrowChoices(ws, <<pkt>>) :
               WsMessage(ws, <<pkt>>, FALSE, TRUE, 7, thr)
       /\ UNCHANGED <<gwVars, dirVars, codecVars>>

SpecUnicast == PartyInit /\ [][UnicastNext]_vars

\* SpecDir: a room of two connections and the directory; at most MaxInflight
\* directory requests are on their way at a time, and the clock stands still.
MaxInflight == 2

DirPackets(ws) ==
    {PktClientInfo(1), PktCreate(ws, NameA, PwNone, 2), PktJoin(ws, NameA, PwNone),
     PktLeave}

DirNext ==
    \/ /\ \E ws \in RoomSockets : Attach(ws)
       /\ UNCHANGED <<gwVars, dirVars, codecVars>>
    \/ /\ \E ws \in RoomSockets : \E pkt \in DirPackets(ws) :
            \E thr \in ThrowChoices(ws, <<pkt>>) :
               WsMessage(ws, <<pkt>>, FALSE, TRUE, 7, thr)
       /\ IssueDirCalls
       /\ Len(dirInflight') <= MaxInflight
       /\ UNCHANGED <<gwVars, codecVars>>
    \/ /\ \E ws \in RoomSockets : WsClose(ws)
       /\ IssueDirCalls
       /\ Len(dirInflight') <= MaxInflight
       /\ UNCHANGED <<gwVars, codecVars>>
    \/ \E i \in 1 .. Len(dirInflight) : DirFetch(i, 0)

SpecDir == RoomInit /\ [][DirNext]_vars

\* SpecList: the directory serving rooms of several names, one request at a
\* time, over MaxClock ticks of its clock.
MaxClock == 2

ListNames == {NameA, NameB, NameC}

ListRequests ==
    {[op |-> "upsert", name |-> n, type |-> ty, slotsUsed |-> 1,
      slotsTotal |-> MAX_PLAYERS] : n \in ListNames, ty \in {0, 1}}
    \cup {[op |-> "remove", name |-> n] : n \in ListNames}

ListNext ==
    \/ /\ dirInflight = <<>>
       /\ \E rpc \in ListRequests : DirRequest(rpc)
    \/ \E i \in 1 .. Len(dirInflight) : \E now \in 0 .. MaxClock : DirFetch(i, now)
    \/ DirList

SpecList == RoomInit /\ [][ListNext]_vars

\* The codec on its own: one packet of every variant, in the form a client sends
\* and in the form the server sends; batches of them, nested and empty, and
\* with a code the decoder does not know; every proper prefix of each frame.

ClientForms ==
    {PktClientInfo(1), PktGameList, PktCreate(1, NameA, <<>>, 2),
     PktJoin(2, NameB, <<112, 119>>), PktLeave, PktDrop(1, 42),
     PktMessage(255, Payload), PktTurn(70000)}

ServerForms ==
    {[code |-> ServerInfo, version |-> 1], encodeJoinAccept(17, 1, 5, 2),
     encodeJoinReject(17, 5), encodeConnect(1), encodeDisconnect(1, 3),
     encodeMessage(2, <<>>)}

\* the two variants whose encoded form carries what the decoder does not read
EncodeOnlyForms ==
    {[code |-> GameList, games |-> <<[type |-> 1, name |-> NameA]>>],
     encodeTurn(1, 5)}

CodecPackets == ClientForms \cup ServerForms \cup EncodeOnlyForms

CodecBatches ==
    {[batch |-> <<>>],
     [batch |-> <<PktClientInfo(1), PktCreate(1, NameA, <<>>, 2)>>],
     [batch |-> <<PktTurn(1), PktTurn(2), PktTurn(3)>>],
     [batch |-> <<[batch |-> <<PktTurn(1), PktLeave>>], PktTurn(2)>>],
     [batch |-> <<PktTurn(1), [batch |-> <<[batch |-> <<PktGameList>>],
                                           PktTurn(2)>>], PktTurn(3)>>],
     [batch |-> <<[batch |-> <<>>], PktLeave, [batch |-> <<>>]>>],
     [batch |-> <<PktCreate(1, NameA, <<>>, 2), PktCreate(1, NameB, <<>>, 2)>>],
     [batch |-> <<PktJoin(1, NameA, <<>>), PktJoin(1, NameB, <<>>)>>],
     [batch |-> <<[code |-> Unknown], PktTurn(1)>>],
     [batch |-> <<PktTurn(1), [code |-> Unknown]>>],
     [batch |-> <<PktTurn(1), [batch |-> <<PktLeave, [code |-> Unknown]>>]>>]}

MaxWire == 16

CodecNext ==
    \/ \E pkt \in CodecPackets \cup {[code |-> Unknown]} : EncodeOne(pkt)
    \/ \E t \in CodecBatches : EncodeBatch(t)
    \/ \E n \in 0 .. MaxWire : Truncate(n)
    \/ DecodeWire

SpecCodec == RoomInit /\ [][CodecNext]_vars

ExtraWs == 1

AdmitSockets == 1 .. (MAX_PLAYERS + ExtraWs)

AdmitPackets(ws) ==
    {PktClientInfo(1), PktCreate(ws, NameA, PwNone, 2),
     PktJoin(ws, NameA, PwNone), PktJoin(ws, NameA, PwS)}

AdmitFrames(ws) == {<<p>> : p \in AdmitPackets(ws)}

AdmitNext ==
    \/ /\ \E ws \in AdmitSockets : Attach(ws)
       /\ UNCHANGED <<gwVars, dirVars, codecVars>>
    \/ /\ \E ws \in AdmitSockets : \E pkts \in AdmitFrames(ws) :
            \E thr \in ThrowChoices(ws, pkts) :
               WsMessage(ws, pkts, FALSE, TRUE, 7, thr)
       /\ UNCHANGED <<gwVars, dirVars, codecVars>>

AdmitInit == RoomInitOn(AdmitSockets) /\ GwInit /\ DirInit /\ CodecInit

SpecAdmit == AdmitInit /\ [][AdmitNext]_vars

----------------------------------------------------------------------------
(* Specifications: the gateway *)

MaxFrames == 3
MaxRoomMessages == 1

GwFrame(k, pkts) == [seq |-> k, pkts |-> pkts, len |-> 5]

GwFrames(k) ==
    {GwFrame(k, <<PktClientInfo(1)>>),
     GwFrame(k, <<PktGameList>>),
     GwFrame(k, <<PktCreate(0, NameA, PwNone, 2)>>),
     GwFrame(k, <<PktJoin(0, NameB, PwNone)>>),
     GwFrame(k, <<PktTurn(5)>>),
     GwFrame(k, Undecodable),
     GwFrame(k, DecodeThrows)}

RoomData == [seq |-> 0, pkts |-> <<[code |-> Connect, id |-> 0]>>, len |-> 2]

FetchOutcomes == {"ws", "nows", "throw"}

GwNext ==
    \/ /\ recvCount < MaxFrames
       /\ \E buf \in GwFrames(recvCount + 1) : ClientMessage(buf)
       /\ UNCHANGED <<roomVars, dirVars, codecVars>>
    \/ /\ \E e \in inflight : \E o \in FetchOutcomes : BridgeFetchDone(e, o)
       /\ UNCHANGED <<roomVars, dirVars, codecVars>>
    \/ /\ \E e \in inflight : \E o \in {"ws", "throw"} : ListFetchDone(e, o)
       /\ UNCHANGED <<roomVars, dirVars, codecVars>>
    \/ /\ ConnectTimeout
       /\ UNCHANGED <<roomVars, dirVars, codecVars>>
    \/ /\ \E c \in CloseCodes : ClientClose(c)
       /\ UNCHANGED <<roomVars, dirVars, codecVars>>
    \/ /\ ClientError
       /\ UNCHANGED <<roomVars, dirVars, codecVars>>
    \/ /\ Len(toClient) <= MaxRoomMessages
       /\ \E i \in 1 .. Len(doSockets) : RoomMessage(i, RoomData)
       /\ UNCHANGED <<roomVars, dirVars, codecVars>>
    \/ /\ \E i \in 1 .. Len(doSockets) : \E c \in CloseCodes : RoomClose(i, c)
       /\ UNCHANGED <<roomVars, dirVars, codecVars>>
    \/ /\ \E i \in 1 .. Len(doSockets) : RoomError(i)
       /\ UNCHANGED <<roomVars, dirVars, codecVars>>

\* The gateway specifications leave the room actor in its initial state.
GatewayInit == RoomInitOn(RoomSockets) /\ GwInit /\ DirInit /\ CodecInit

SpecGw == GatewayInit /\ [][GwNext]_vars

\* SpecGwTimer: the same connection, with the runtime firing an armed timer.
SpecGwTimer ==
    GatewayInit /\ [][GwNext]_vars /\ WF_vars(ConnectTimeout /\ UNCHANGED <<roomVars, dirVars, codecVars>>)

\* SpecSniff: a client whose frames are batches naming rooms, some of them
\* twice; each frame is what decodeTopLevel makes of the bytes on the wire.
MaxSniffFrames == 3

SniffBatches ==
    {[batch |-> <<PktCreate(0, NameA, PwNone, 2), PktCreate(0, NameB, PwNone, 2)>>],
     [batch |-> <<PktJoin(0, NameA, PwNone), PktJoin(0, NameB, PwNone)>>],
     [batch |-> <<PktClientInfo(1), PktClientInfo(2)>>],
     [batch |-> <<PktJoin(0, NameC, PwNone), PktCreate(0, NameA, PwNone, 2)>>],
     [batch |-> <<PktClientInfo(1), [batch |-> <<PktCreate(0, NameC, PwNone, 2)>>]>>],
     PktJoin(0, NameB, PwNone)}

SniffFrames(k) ==
    {[seq |-> k, pkts |-> decodeTopLevel(frameOf(t)), len |-> Len(frameOf(t))] :
        t \in SniffBatches}

SniffNext ==
    \/ /\ recvCount < MaxSniffFrames
       /\ \E buf \in SniffFrames(recvCount + 1) : ClientMessage(buf)
       /\ UNCHANGED <<roomVars, dirVars, codecVars>>
    \/ /\ \E e \in inflight : \E o \in FetchOutcomes : BridgeFetchDone(e, o)
       /\ UNCHANGED <<roomVars, dirVars, codecVars>>

SpecSniff == GatewayInit /\ [][SniffNext]_vars

\* SpecEarly: a client's first frames, before a bridge exists: a GameList
\* request alone and in a batch with ClientInfo or CreateGame, frames that name
\* a room, and frames that do not.
MaxEarlyFrames == 3

EarlyBatches ==
    {PktGameList,
     [batch |-> <<PktGameList, PktCreate(0, NameA, PwNone, 2)>>],
     [batch |-> <<PktClientInfo(1), PktGameList>>],
     PktClientInfo(1),
     PktTurn(5),
     PktJoin(0, NameB, PwNone),
     [code |-> Unknown]}

EarlyFrames(k) ==
    {[seq |-> k, pkts |-> decodeTopLevel(frameOf(t)), len |-> Len(frameOf(t))] :
        t \in EarlyBatches}

EarlyNext ==
    \/ /\ recvCount < MaxEarlyFrames
       /\ \E buf \in EarlyFrames(recvCount + 1) : ClientMessage(buf)
       /\ UNCHANGED <<roomVars, dirVars, codecVars>>
    \/ /\ \E e \in inflight : \E o \in FetchOutcomes : BridgeFetchDone(e, o)
       /\ UNCHANGED <<roomVars, dirVars, codecVars>>
    \/ /\ \E e \in inflight : \E o \in {"ws", "throw"} : ListFetchDone(e, o)
       /\ UNCHANGED <<roomVars, dirVars, codecVars>>

SpecEarly == GatewayInit /\ [][EarlyNext]_vars

\* SpecDepart: SpecLeave with sockets that fail: the error event fires first and
\* the close event of the same socket follows it.  Both listeners of attach()
\* run, one after the other; no frame arrives between the two.
onWsErrored(st, ws) ==
    [onWsEnd(st, ws, 0) EXCEPT !.sock[ws] = "errored"]

WsErrorFirst(ws) ==
    /\ sock[ws] \in {"open", "closing"}
    /\ Commit(onWsErrored(RoomSt, ws))

DepartNext ==
    \/ /\ \E ws \in PartySockets : Attach(ws)
       /\ UNCHANGED <<gwVars, dirVars, codecVars>>
    \/ /\ \E ws \in PartySockets : \E pkt \in LeavePackets(ws) :
            \E thr \in ThrowChoices(ws, <<pkt>>) :
               /\ sock[ws] # "errored"
               /\ WsMessage(ws, <<pkt>>, FALSE, TRUE, 7, thr)
       /\ UNCHANGED <<gwVars, dirVars, codecVars>>
    \/ /\ \E ws \in PartySockets : WsClose(ws)
       /\ UNCHANGED <<gwVars, dirVars, codecVars>>
    \/ /\ \E ws \in PartySockets : WsErrorFirst(ws)
       /\ UNCHANGED <<gwVars, dirVars, codecVars>>

SpecDepart == PartyInit /\ [][DepartNext]_vars

\* SpecNamed: one gateway connection and the room actor it is bridged to.  The
\* actor is the one idFromName gives for the name attachBridge was called
\* with; the frames the gateway forwards are handled by the actor, in order, as
\* they are forwarded.  The client waits for a bridge fetch to settle before it
\* sends on, so there is one room socket at most (socket 1 of the actor).
MaxNamedFrames == 4

NamedPackets ==
    {PktClientInfo(1), PktCreate(0, NameA, PwNone, 2), PktCreate(0, NameB, PwNone, 2),
     PktJoin(0, NameB, PwNone), PktLeave}

NamedFrames(k) ==
    {[seq |-> k, pkts |-> decodeTopLevel(frameOf(p)), len |-> Len(frameOf(p))] :
        p \in NamedPackets}

\* attach(server) on the actor's state
attached(st, ws) ==
    [st EXCEPT !.sock[ws] = "open",
               !.bySocket = MapSet(@, ws, [id |-> Undef, ws |-> ws, cookie |-> Undef,
                                           clientVersion |-> Undef])]

RECURSIVE deliverAll(_, _, _)
deliverAll(st, ws, frames) ==
    IF frames = <<>> THEN st
    ELSE deliverAll(IF st.sock[ws] = "none" THEN st
                    ELSE onWsMessage(st, ws, Head(frames).pkts, FALSE, TRUE, 7, TRUE),
                    ws, Tail(frames))

\* what the step has added to the frames sent on room socket 1
Forwarded ==
    IF Len(doSockets') = 0 THEN <<>>
    ELSE SubSeq(doSockets'[1].got,
                (IF Len(doSockets) = 0 THEN 0 ELSE Len(doSockets[1].got)) + 1,
                Len(doSockets'[1].got))

NamedNext ==
    \/ /\ recvCount < MaxNamedFrames
       /\ \A e \in inflight : e.kind # "bridge"
       /\ \E buf \in NamedFrames(recvCount + 1) : ClientMessage(buf)
       /\ Commit(deliverAll(RoomSt, 1, Forwarded))
       /\ UNCHANGED <<dirVars, codecVars>>
    \/ /\ \E e \in inflight : BridgeFetchDone(e, "ws")
       /\ Commit(deliverAll(attached(RoomSt, 1), 1, Forwarded))
       /\ UNCHANGED <<dirVars, codecVars>>
    \/ /\ \E e \in inflight : \E o \in {"nows", "throw"} : BridgeFetchDone(e, o)
       /\ UNCHANGED <<roomVars, dirVars, codecVars>>

SpecNamed == GatewayInit /\ [][NamedNext]_vars

\* SpecFlood: a client that names no room and sends frames the codec rejects;
\* its first MaxVaried frames may also decode, or make the decoder throw.
MaxFlood == 35
MaxVaried == 2

FloodFrames(k) ==
    {GwFrame(k, Undecodable)}
    \cup (IF k <= MaxVaried
          THEN {GwFrame(k, DecodeThrows), GwFrame(k, <<PktTurn(5)>>)}
          ELSE {})

FloodNext ==
    \/ /\ recvCount < MaxFlood
       /\ \E buf \in FloodFrames(recvCount + 1) : ClientMessage(buf)
       /\ UNCHANGED <<roomVars, dirVars, codecVars>>
    \/ /\ ConnectTimeout
       /\ UNCHANGED <<roomVars, dirVars, codecVars>>
    \/ /\ \E c \in CloseCodes : ClientClose(c)
       /\ UNCHANGED <<roomVars, dirVars, codecVars>>

SpecFlood == GatewayInit /\ [][FloodNext]_vars

\* SpecBacklog: a client that names no room and keeps sending frames that
\* decode but carry no lobby action; among its first MaxVaried frames some may
\* be ClientInfo or make the decoder throw.
MaxBacklog == 258

BacklogFrames(k) ==
    {GwFrame(k, <<PktTurn(5)>>)}
    \cup (IF k <= MaxVaried
          THEN {GwFrame(k, DecodeThrows), GwFrame(k, <<PktClientInfo(1)>>)}
          ELSE {})

BacklogNext ==
    \/ /\ recvCount < MaxBacklog
       /\ \E buf \in BacklogFrames(recvCount + 1) : ClientMessage(buf)
       /\ UNCHANGED <<roomVars, dirVars, codecVars>>
    \/ /\ ConnectTimeout
       /\ UNCHANGED <<roomVars, dirVars, codecVars>>
    \/ /\ \E c \in CloseCodes : ClientClose(c)
       /\ UNCHANGED <<roomVars, dirVars, codecVars>>

SpecBacklog == GatewayInit /\ [][BacklogNext]_vars

----------------------------------------------------------------------------
(* Properties of the room actor *)

Joined == {w \in DOMAIN bySocket : bySocket[w].id >= 0}
Occupied == {i \in SlotIds : slots[i] # NoPlayer}
connVersion(ws) == IF ws \in DOMAIN bySocket THEN bySocket[ws].clientVersion ELSE Undef
Accepts(snt) == {s \in Sends(snt) : s.msg.code = JoinAccept}
Rejects(snt) == {s \in Sends(snt) : s.msg.code = JoinReject}

\* C1: no two connections hold the same slot, no connection holds two slots, and
\* a connection that has just been sent JoinAccept(index) holds exactly that slot,
\* so that two accepted connections have distinct indices.
C1_DistinctSlots ==
    /\ \A a, b \in Joined : a # b => bySocket[a].id # bySocket[b].id
    /\ \A i, j \in Occupied : i # j => slots[i].ws # slots[j].ws
    /\ \A s \in Accepts(sent) :
          /\ s.to \in Joined
          /\ bySocket[s.to].id = s.msg.index
          /\ slots[s.msg.index] # NoPlayer
          /\ slots[s.msg.index].ws = s.to

C1_TwoAccepted ==
    /\ Cardinality(Joined) = 2
    /\ \E s \in Accepts(sent) : s.ok /\ s.msg.index = 1

\* C2: if any slot is occupied, or any connection is a non-host player, then slot 0
\* is occupied and exactly one connection is the host.
C2_HostPresent ==
    (Occupied # {} \/ \E w \in Joined : bySocket[w].id > 0)
        => /\ slots[0] # NoPlayer
           /\ Cardinality({w \in Joined : bySocket[w].id = 0}) = 1

C2_HostLeftWithGuest ==
    /\ Occupied = {}
    /\ \E s \in Sends(sent) : s.msg.code = Disconnect /\ s.msg.id = 1

\* C3: every joined player's clientVersion equals room.version.
C3_VersionsAgree ==
    /\ \A w \in Joined : room # NoRoom /\ bySocket[w].clientVersion = room.version
    /\ \A i \in Occupied : room # NoRoom /\ slots[i].clientVersion = room.version

\* C4 (as stated): over the whole life of the actor at most one JoinAccept carries
\* index 0.
C4_OneHostAcceptEver == acceptsZero <= 1

\* C4 (amended): a JoinAccept with index 0 goes out only in the event that creates
\* the room, once, to the connection that becomes the host in slot 0; an accept
\* sent while a room exists (a join) never has index 0 and finds the host present.
C4_OneHostAcceptPerRoom ==
    [][\A s \in Accepts(sent') :
          IF room = NoRoom
          THEN /\ s.msg.index = 0
               /\ Cardinality(Accepts(sent')) = 1
               /\ room' # NoRoom
               /\ slots'[0] # NoPlayer
               /\ slots'[0].ws = s.to
          ELSE /\ s.msg.index # 0
               /\ slots[0] # NoPlayer
               /\ slots'[0] = slots[0]]_vars

C4_SecondRoomCreated ==
    /\ acceptsZero = 2
    /\ \E s \in Accepts(sent) : s.ok /\ s.msg.index = 0

JoinProbes(ws) ==
    {PktJoin(ws, n, pw) : n \in {NameA, NameB, NameBad}, pw \in {PwNone, PwS}}

rejectOf(pkt, reason) == [code |-> JoinReject, cookie |-> pkt.cookie, reason |-> reason]

isAdmission(pkt) == pkt.code \in {CreateGame, JoinGame}

\* C6: a CreateGame or JoinGame either admits the connection or sends exactly one
\* packet, a JoinReject with the request's cookie and one of the six reasons, to the
\* requester; in an event that sends a JoinReject nothing else is sent, no socket is
\* closed, and room, slots and every connection record stay as they were.
C6_RejectLeavesStateAlone ==
    [][/\ \A s \in Rejects(sent') :
             /\ sent' = (s.to :> <<[msg |-> s.msg, ok |-> TRUE]>>)
             /\ s.msg.cookie = CookieOf(s.to)
             /\ s.msg.reason \in 1 .. 6
             /\ closes' = EmptyMap
             /\ sock' = sock
             /\ room' = room
             /\ slots' = slots
             /\ bySocket' = bySocket
       /\ \A ws \in AdmitSockets : \A pkt \in AdmitPackets(ws) :
          \A thr \in ThrowChoices(ws, <<pkt>>) :
             (isAdmission(pkt) /\ WsMessage(ws, <<pkt>>, FALSE, TRUE, 7, thr))
             => \/ /\ ws \notin Joined
                   /\ Accepts(sent') # {}
                   /\ Rejects(sent') = {}
                \/ /\ Cardinality(Rejects(sent')) = 1
                   /\ \A s \in Rejects(sent') : s.to = ws /\ s.msg.cookie = pkt.cookie]_vars

C6_WrongPasswordRejected ==
    /\ room # NoRoom
    /\ \E s \in Rejects(sent) :
          s.ok /\ s.msg.reason = JOIN_INCORRECT_PASSWORD /\ sock[s.to] = "open"

\* C7: at most four connections are joined players, however many are attached; a
\* JoinGame that passes the name, password and version checks while the four slots
\* are occupied is answered with JoinReject(5) and changes no slot and no record.
C7_FullRejects ==
    [][/\ Cardinality(Joined') <= 4
       /\ \A ws \in AdmitSockets : \A pkt \in AdmitPackets(ws) :
          \A thr \in ThrowChoices(ws, <<pkt>>) :
             (/\ pkt.code = JoinGame
              /\ room # NoRoom
              /\ ws \notin Joined
              /\ pkt.name = room.name
              /\ pkt.password = room.password
              /\ connVersion(ws) = room.version
              /\ Occupied = SlotIds
              /\ WsMessage(ws, <<pkt>>, FALSE, TRUE, 7, thr))
             => /\ sent' = (ws :> <<[msg |-> rejectOf(pkt, 5), ok |-> TRUE]>>)
                /\ slots' = slots
                /\ bySocket' = bySocket]_vars

C7_FifthTurnedAway ==
    /\ Cardinality(DOMAIN bySocket) > 4
    /\ Cardinality(Joined) = 4
    /\ \E s \in Rejects(sent) : s.ok /\ s.msg.reason = JOIN_GAME_FULL

----------------------------------------------------------------------------
(* Properties of the gateway *)

\* C8: what each room socket has been sent is in the client's sending order.
C8_ForwardedInArrivalOrder ==
    \A i \in 1 .. Len(doSockets) :
        \A a, b \in 1 .. Len(doSockets[i].got) :
            a < b => doSockets[i].got[a].seq < doSockets[i].got[b].seq

\* C9: while no bridge exists there is no room socket and a client frame reaches
\* none; once a bridge exists and is open, a client frame is appended unchanged to
\* what the room socket was sent and the gateway's own state (pending queue, lobby
\* fields, suspended fetches, replies to the client) does not move.
C9_ForwardOnlyAfterBridge ==
    [][/\ doWs' = 0 => doSockets' = <<>>
       /\ \A buf \in GwFrames(recvCount + 1) :
             ClientMessage(buf)
             => IF doWs = 0 THEN doSockets' = doSockets
                ELSE doSockets[doWs].state = "open"
                     => /\ doSockets' = [doSockets EXCEPT ![doWs].got = Append(@, buf)]
                        /\ pending' = pending
                        /\ inflight' = inflight
                        /\ toClient' = toClient
                        /\ clientVersion' = clientVersion
                        /\ roomName' = roomName
                        /\ closed' = closed]_vars

C9_ListRequestForwarded ==
    /\ doWs # 0
    /\ \E k \in 1 .. Len(doSockets[doWs].got) :
          doSockets[doWs].got[k].pkts = <<PktGameList>>

\* C10: while the connection is open and names no room, an undecodable frame closes
\* it with 1002 exactly when it is the 33rd one enqueued; each of the first 32 is
\* enqueued, counted, and leaves the connection open.
C10_ClosedAtThirtyThird ==
    [][\A buf \in FloodFrames(recvCount + 1) :
          (/\ buf.pkts = Undecodable
           /\ ~closed
           /\ doWs = 0
           /\ ClientMessage(buf))
          => IF pendingUnknownMessages + 1 = 33
             THEN closed' /\ serverWs' = [state |-> "closed", code |-> 1002]
             ELSE /\ pendingUnknownMessages + 1 < 33
                  /\ ~closed'
                  /\ serverWs'.state = "open"
                  /\ pendingUnknownMessages' = pendingUnknownMessages + 1]_vars

C10_ThirtyThreeUnknown ==
    /\ recvCount = 33
    /\ closed
    /\ serverWs = [state |-> "closed", code |-> 1002]

\* C11: while the connection is open and names no room, a decodable frame with no
\* lobby action closes it with 1009 exactly when it is the 257th one enqueued; each
\* of the first 256 is appended to the queue and leaves the connection open.
C11_ClosedAtTwoHundredFiftySeventh ==
    [][\A buf \in BacklogFrames(recvCount + 1) :
          (/\ buf.pkts # DecodeThrows
           /\ ~closed
           /\ doWs = 0
           /\ ClientMessage(buf))
          => IF Len(pending) + 1 = 257
             THEN /\ closed'
                  /\ serverWs' = [state |-> "closed", code |-> 1009]
                  /\ pending' = <<>>
             ELSE /\ Len(pending) + 1 < 257
                  /\ ~closed'
                  /\ serverWs'.state = "open"
                  /\ pending' = Append(pending, buf)]_vars

C11_TwoHundredFiftySevenKnown ==
    /\ recvCount = 257
    /\ closed
    /\ overflowLogged
    /\ serverWs = [state |-> "closed", code |-> 1009]

\* C12: in every state the pending queue holds at most 256 frames and 14 MiB, of
\* which at most 32 frames and 1 MiB are unknown, and its counters describe it.
C12_PendingWithinLimits ==
    /\ Len(pending) <= MAX_PENDING_MESSAGES
    /\ pendingBytes <= MAX_PENDING_BYTES
    /\ pendingUnknownMessages <= MAX_PENDING_UNKNOWN_MESSAGES
    /\ pendingUnknownBytes <= MAX_PENDING_UNKNOWN_BYTES
    /\ Cardinality({i \in 1 .. Len(pending) : pending[i].pkts = Undecodable})
          <= MAX_PENDING_UNKNOWN_MESSAGES

\* C13: a connection that has received a binary frame and is neither bridged nor
\* closed has its connect timer armed; when the timer fires on such a connection it
\* is closed with 1011, so that it does not stay unbridged and open for ever; when
\* the timer fires on a bridged connection nothing is closed.
C13_TimeoutClosesUnbridged ==
    /\ []((recvCount > 0 /\ doWs = 0 /\ ~closed) => timeoutId)
    /\ [][ConnectTimeout
          => IF doWs = 0
             THEN /\ closed'
                  /\ ~closed => serverWs' = [state |-> "closed", code |-> 1011]
             ELSE /\ closed' = closed
                  /\ serverWs' = serverWs
                  /\ doSockets' = doSockets]_vars
    /\ (recvCount > 0 /\ doWs = 0 /\ ~closed) ~> (closed \/ doWs # 0)

C13_TimedOut ==
    /\ recvCount > 0
    /\ doWs = 0
    /\ roomName = NoName
    /\ closed
    /\ serverWs = [state |-> "closed", code |-> 1011]

\* C14: when one leg of a bridged connection closes with code c, the gateway
\* closes the other leg with the same code c: a close of the room's socket
\* with c closes the client's socket with c, and a close of the client's
\* socket with c closes the room's socket with c.
C14_CloseCodePropagated ==
    [][/\ \A i \in 1 .. Len(doSockets) : \A c \in CloseCodes :
            (/\ i = doWs
             /\ ~closed
             /\ serverWs.state = "open"
             /\ RoomClose(i, c))
            => serverWs' = [state |-> "closed", code |-> c]
       /\ \A c \in CloseCodes :
            (/\ doWs # 0
             /\ ~closed
             /\ doSockets[doWs].state = "open"
             /\ ClientClose(c))
            => /\ doSockets'[doWs].state = "closed"
               /\ doSockets'[doWs].code = c]_vars

\* The room leg of an open bridged connection has closed; the client leg was
\* closed with 1000 whatever the room's code was.
C14_RoomLegClosed ==
    /\ doWs # 0
    /\ doSockets[doWs].state = "ended"
    /\ serverWs = [state |-> "closed", code |-> 1000]

\* C15: a CreateGame or JoinGame whose name does not match
\* [A-Za-z0-9_-]{1,32} gets no JoinReject (nothing is sent to anyone), creates
\* no RoomState and takes no slot, and its sender's socket is closed with 1002
\* (a socket the room had already closed stays closed); this holds whatever
\* the sender's state is (joined or not, version declared or not, room
\* existing or not), the name check being the first one.
C15_InvalidNameClosesSender ==
    [][\A ws \in RoomSockets : \A n \in BadNames :
         \A pkt \in {PktJoin(ws, n, PwNone), PktCreate(ws, n, PwNone, 2)} :
           \A thr \in ThrowChoices(ws, <<pkt>>) :
             WsMessage(ws, <<pkt>>, FALSE, TRUE, 7, thr)
             => /\ ~isValidRoomName(n)
                /\ sent' = EmptyMap
                /\ room' = room
                /\ slots' = slots
                /\ bySocket' = bySocket
                /\ dirCalls' = <<>>
                /\ sock'[ws] = "closing"
                /\ sock[ws] = "open" => closes' = MapSet(EmptyMap, ws, 1002)
                /\ \A w \in RoomSockets \ {ws} : sock'[w] = sock[w]]_vars

\* The host of a room has just been closed with 1002 for an invalid name.
C15_HostClosedForName ==
    \E ws \in RoomSockets :
        /\ closes = MapSet(EmptyMap, ws, 1002)
        /\ sent = EmptyMap
        /\ room # NoRoom
        /\ slots[0] # NoPlayer
        /\ slots[0].ws = ws

\* The slot a connection occupies, and the connections that occupy a slot.
SlotOf(ws) == CHOOSE i \in SlotIds : slots[i] # NoPlayer /\ slots[i].ws = ws
Players == {slots[i].ws : i \in Occupied}

\* C16: when the player in slot s sends Message{id=0xFF, payload}, exactly one
\* packet, Message{id=s, payload} with the payload unchanged, is sent to every
\* other connection that occupies a slot (it arrives unless the room has already
\* closed that connection's socket), nothing is sent to the sender or to a
\* connection that has not joined, and the room's state does not change.
C16_BroadcastReachesOthers ==
    [][\A ws \in PartySockets : \A thr \in ThrowChoices(ws, <<PktMessage(255, Payload)>>) :
         (/\ ws \in Players
          /\ WsMessage(ws, <<PktMessage(255, Payload)>>, FALSE, TRUE, 7, thr))
         => /\ DOMAIN sent' = Players \ {ws}
            /\ \A w \in Players \ {ws} :
                  sent'[w] = <<[msg |-> [code |-> Message, id |-> SlotOf(ws),
                                         payload |-> Payload],
                                ok |-> (sock[w] = "open")]>>
            /\ closes' = EmptyMap
            /\ dirCalls' = <<>>
            /\ room' = room
            /\ slots' = slots
            /\ bySocket' = bySocket]_vars

\* The player in slot 1 has broadcast a message: the host received it, and a
\* third connection that has not joined received nothing.
C16_GuestBroadcast ==
    \E h, n \in PartySockets :
        /\ h # n
        /\ slots[0] # NoPlayer
        /\ slots[0].ws = h
        /\ slots[1] # NoPlayer
        /\ sock[n] = "open"
        /\ n \notin Players
        /\ sent = MapSet(EmptyMap, h, <<[msg |-> [code |-> Message, id |-> 1,
                                                  payload |-> Payload],
                                         ok |-> TRUE]>>)

\* The packets by which a host closes its room, and the reason each one carries.
HostClosers == {PktLeave, PktDrop(0, 42)}
reasonOf(pkt) == IF pkt.code = LeaveGame THEN 3 ELSE pkt.reason

\* C17: when the connection in slot 0 sends DropPlayer{id=0, reason=r}, or
\* LeaveGame (r = 3), every connection that occupies a slot is sent one
\* Disconnect{id=i, reason=r} per occupied slot i, in ascending order of i, and
\* nothing else (the packets arrive unless the room had already closed that
\* connection's socket); connections that have not joined are sent nothing;
\* after these sends every attached socket that was still open is closed with
\* 1000, so that no attached socket stays open; RoomState is dropped, every
\* slot and connection record is cleared, and exactly one directory call, a
\* remove for the room's name, is made.
C17_HostClosesRoom ==
    [][\A ws \in PartySockets : \A pkt \in HostClosers :
         \A thr \in ThrowChoices(ws, <<pkt>>) :
           (/\ slots[0] # NoPlayer
            /\ slots[0].ws = ws
            /\ WsMessage(ws, <<pkt>>, FALSE, TRUE, 7, thr))
           => /\ DOMAIN sent' = Players
              /\ \A w \in Players :
                    /\ Len(sent'[w]) = Cardinality(Occupied)
                    /\ \A k \in 1 .. Len(sent'[w]) :
                          /\ sent'[w][k].msg.code = Disconnect
                          /\ sent'[w][k].msg.id \in Occupied
                          /\ sent'[w][k].msg.reason = reasonOf(pkt)
                          /\ sent'[w][k].ok = (sock[w] = "open")
                          /\ \A j \in 1 .. (k - 1) :
                                sent'[w][j].msg.id < sent'[w][k].msg.id
              /\ DOMAIN closes' = {w \in PartySockets : sock[w] = "open"}
              /\ \A w \in DOMAIN closes' : closes'[w] = 1000
              /\ \A w \in PartySockets : sock'[w] # "open"
              /\ room # NoRoom
              /\ room' = NoRoom
              /\ slots' = [i \in SlotIds |-> NoPlayer]
              /\ bySocket' = EmptyMap
              /\ dirCalls' = <<[op |-> "remove", name |-> room.name]>>]_vars

\* A host has just left a room that held a second player, with a third
\* connection attached but not joined: the two players were each sent
\* Disconnect 0 then Disconnect 1 with reason 3, and all three sockets were
\* closed with 1000.
C17_HostLeftParty ==
    /\ room = NoRoom
    /\ DOMAIN closes = PartySockets
    /\ \A w \in PartySockets : closes[w] = 1000
    /\ Cardinality(DOMAIN sent) = 2
    /\ \A w \in DOMAIN sent :
          sent[w] = <<[msg |-> [code |-> Disconnect, id |-> 0, reason |-> 3], ok |-> TRUE],
                      [msg |-> [code |-> Disconnect, id |-> 1, reason |-> 3], ok |-> TRUE]>>
    /\ dirCalls = <<[op |-> "remove", name |-> NameA]>>

\* The requests by which a connection asks for a slot in SpecParty.
Admissions(ws) == {PktCreate(ws, NameA, PwNone, 2), PktJoin(ws, NameA, PwNone)}

\* C18: every CreateGame or JoinGame that gives its sender a slot sends the
\* sender JoinAccept with the request's cookie, that slot, and the room's seed
\* and difficulty, followed by Connect{id=slot}, both of which arrive; every
\* connection that already held a slot is sent Connect{id=slot} (and nothing
\* else), and nobody else is sent anything; a JoinGame leaves the room's seed
\* and difficulty as they were at creation.
C18_AdmissionAnnounced ==
    [][\A ws \in PartySockets : \A pkt \in Admissions(ws) :
         \A thr \in ThrowChoices(ws, <<pkt>>) :
           (/\ ws \notin Players
            /\ WsMessage(ws, <<pkt>>, FALSE, TRUE, 7, thr)
            /\ ws \in Players')
           => /\ room' # NoRoom
              /\ room # NoRoom
                   => /\ room'.seed = room.seed
                      /\ room'.difficulty = room.difficulty
              /\ DOMAIN sent' = Players'
              /\ sent'[ws] =
                    <<[msg |-> [code |-> JoinAccept, cookie |-> pkt.cookie,
                                index |-> SlotOf(ws)', seed |-> room'.seed,
                                difficulty |-> room'.difficulty],
                       ok |-> TRUE],
                      [msg |-> [code |-> Connect, id |-> SlotOf(ws)'], ok |-> TRUE]>>
              /\ \A w \in Players :
                    sent'[w] = <<[msg |-> [code |-> Connect, id |-> SlotOf(ws)'],
                                  ok |-> (sock[w] = "open")]>>]_vars

\* C19: in every state RoomState exists exactly when some slot is occupied; a
\* step that brings RoomState into existence is a CreateGame answered with
\* JoinAccept for slot 0, whose sender is then the only occupant; a step in which
\* the host's slot is vacated leaves no RoomState and no occupied slot; and
\* whenever there is no RoomState (at the start, or after a room was destroyed)
\* a CreateGame with a valid name from an open connection that has declared
\* its version creates one, with the sender in slot 0.
C19_RoomIffOccupied ==
    /\ [](room # NoRoom <=> Occupied # {})
    /\ [][/\ (room = NoRoom /\ room' # NoRoom)
               => /\ Occupied' = {0}
                  /\ \E s \in Accepts(sent') :
                        /\ s.msg.index = 0
                        /\ slots'[0].ws = s.to
          /\ (slots[0] # NoPlayer /\ slots'[0] = NoPlayer)
               => /\ room' = NoRoom
                  /\ Occupied' = {}
          /\ \A ws \in RoomSockets :
               \A thr \in ThrowChoices(ws, <<PktCreate(ws, NameA, PwNone, 2)>>) :
                 (/\ room = NoRoom
                  /\ sock[ws] = "open"
                  /\ connVersion(ws) # Undef
                  /\ WsMessage(ws, <<PktCreate(ws, NameA, PwNone, 2)>>,
                               FALSE, TRUE, 7, thr))
                 => /\ room' # NoRoom
                    /\ room'.name = NameA
                    /\ slots'[0] # NoPlayer
                    /\ slots'[0].ws = ws]_vars

\* A second room on the same actor, created after the first was destroyed,
\* now holds a host and a guest.
C19_SecondRoomHasGuest ==
    /\ acceptsZero = 2
    /\ room # NoRoom
    /\ Occupied = {0, 1}

\* The room is quiescent: no directory request is on its way and no socket the
\* room has closed is still waiting for its close event.
Quiescent ==
    /\ dirInflight = <<>>
    /\ \A w \in RoomSockets : sock[w] # "closing"

\* C20: whenever every directory request of the room has been handled and the
\* room is quiescent, the directory has an entry for the room's name exactly
\* when RoomState exists, and that entry's slotsUsed is the number of occupied
\* slots; the directory lists no other name, so a closed room is not listed.
C20_DirectoryMatchesRoom ==
    Quiescent
    => /\ DOMAIN games = IF room = NoRoom THEN {} ELSE {room.name}
       /\ room # NoRoom => games[room.name].slotsUsed = Cardinality(Occupied)

\* A quiescent room with a host and a guest, listed with two slots used.
C20_ListedWithTwo ==
    /\ Quiescent
    /\ room # NoRoom
    /\ Cardinality(Occupied) = 2
    /\ DOMAIN games = {NameA}
    /\ games[NameA].slotsUsed = 2

\* C21: the directory's Map holds one entry per name upserted and not removed
\* since: an upsert of name n adds or replaces n's entry, which then carries the
\* upsert's type and the time of the upsert, and touches no other entry; a
\* remove of n deletes n's entry and touches no other; and a /list.bin response
\* is a GameList frame whose count is the number of entries, holding exactly
\* one game per entry with the entry's name and type, in an order in which no
\* game was updated later than the one before it.
C21_ListIsLatestUpserts ==
    [][/\ \A i \in 1 .. Len(dirInflight) : \A now \in 0 .. MaxClock :
            DirFetch(i, now)
            => LET rpc == dirInflight[i]
               IN /\ \A n \in (DOMAIN games \cup DOMAIN games') \ {rpc.name} :
                        /\ n \in DOMAIN games
                        /\ n \in DOMAIN games'
                        /\ games'[n].name = games[n].name
                        /\ games'[n].type = games[n].type
                        /\ games'[n].slotsUsed = games[n].slotsUsed
                        /\ games'[n].updatedAt = games[n].updatedAt
                  /\ IF rpc.op = "upsert"
                     THEN /\ rpc.name \in DOMAIN games'
                          /\ games'[rpc.name].name = rpc.name
                          /\ games'[rpc.name].type = rpc.type
                          /\ games'[rpc.name].updatedAt = now
                     ELSE rpc.name \notin DOMAIN games'
       /\ DirList
            => /\ listed'.code = GameList
               /\ listed'.count = Cardinality(DOMAIN games)
               /\ Len(listed'.games) = Cardinality(DOMAIN games)
               /\ {listed'.games[k].name : k \in 1 .. Len(listed'.games)} = DOMAIN games
               /\ \A k \in 1 .. Len(listed'.games) :
                     listed'.games[k].type = games[listed'.games[k].name].type
               /\ \A k \in 1 .. (Len(listed'.games) - 1) :
                     games[listed'.games[k].name].updatedAt
                        >= games[listed'.games[k + 1].name].updatedAt]_vars

\* A list of three games headed by the name that entered the Map first and was
\* upserted again, with another type, after the other two.
C21_OldestNameListedFirst ==
    /\ listed # NoList
    /\ listed.count = 3
    /\ listed.games[1] = [type |-> 1, name |-> NameA]
    /\ NameA \in DOMAIN games
    /\ games[NameA].ord = 1
    /\ \A n \in DOMAIN games \ {NameA} : games[n].updatedAt < games[NameA].updatedAt

\* C22 (as stated): encoding any packet and decoding the frame gives back exactly
\* that packet (a Turn compared without its id).
decodeForm(pkt) ==
    IF pkt.code = Turn THEN [code |-> Turn, turn |-> pkt.turn] ELSE pkt

C22_RoundTrip ==
    (decoded # NotDecoded /\ framed \in CodecPackets /\ wire = encodePacket(framed))
        => decoded = <<decodeForm(framed)>>

\* C22 (amended): the round trip holds for every variant in the form the decoder
\* produces; a Turn encoded with an id and a GameList encoded with games do
\* not come back: the id is read as the low byte of turn, the games are not read.
C22_RoundTripDecodeForms ==
    (decoded # NotDecoded /\ framed \in CodecPackets /\ wire = encodePacket(framed))
        => /\ framed \in ClientForms \cup ServerForms => decoded = <<framed>>
           /\ (framed.code = Turn /\ has(framed, "id"))
                => decoded = <<[code |-> Turn,
                                turn |-> framed.id + 256 * (framed.turn % 16777216)]>>
           /\ framed.code = GameList
                => decoded = <<[code |-> GameList]>>

C22_CreateGameCameBack ==
    /\ framed = PktCreate(1, NameA, <<>>, 2)
    /\ Len(wire) = 12
    /\ decoded = <<framed>>

\* C23: decoding a batch frame gives the leaf packets in the order they occur on
\* the wire, nested batches flattened in place, and never a packet of code Batch.
RECURSIVE flatten(_)
RECURSIVE flattenAll(_)
flattenAll(items) ==
    IF items = <<>> THEN <<>> ELSE flatten(Head(items)) \o flattenAll(Tail(items))

flatten(t) == IF has(t, "batch") THEN flattenAll(t.batch) ELSE <<t>>

knownLeaves(t) == \A i \in 1 .. Len(flatten(t)) : flatten(t)[i].code # Unknown

C23_BatchFlattened ==
    (decoded # NotDecoded /\ framed \in CodecBatches /\ wire = frameOf(framed)
     /\ knownLeaves(framed))
        => /\ decoded = flatten(framed)
           /\ \A i \in 1 .. Len(decoded) : decoded[i].code # Batch

C23_NestedBatchDecoded ==
    /\ framed = [batch |-> <<PktTurn(1), [batch |-> <<[batch |-> <<PktGameList>>],
                                                      PktTurn(2)>>], PktTurn(3)>>]
    /\ wire = frameOf(framed)
    /\ decoded = <<PktTurn(1), PktGameList, PktTurn(2), PktTurn(3)>>

\* C24 (as stated): for the empty frame, a frame with an unknown code at any
\* position, and a frame cut short inside any variant, decodeTopLevel returns
\* none: neither packets nor an exception.
CodecFrames == ClientForms \cup ServerForms \cup CodecBatches \cup {[code |-> Unknown]}

EmptyFrame == wire = <<>>
UnknownCode == framed \in CodecFrames /\ wire = frameOf(framed) /\ ~knownLeaves(framed)
ShortRead == framed \in CodecFrames /\ Len(wire) < Len(frameOf(framed))

C24_MalformedIsNone ==
    (decoded # NotDecoded /\ (EmptyFrame \/ UnknownCode \/ ShortRead))
        => decoded = Undecodable

\* the part of C24 that does not depend on how a short read ends
C24_EmptyOrUnknownIsNone ==
    (decoded # NotDecoded /\ (EmptyFrame \/ UnknownCode)) => decoded = Undecodable

C24_NeverPartial ==
    (decoded # NotDecoded /\ (EmptyFrame \/ UnknownCode \/ ShortRead))
        => decoded \in {Undecodable, DecodeThrows}

C24_ShortClientInfoThrows ==
    /\ framed = PktClientInfo(1)
    /\ wire = <<ClientInfo, 1, 0>>
    /\ decoded = DecodeThrows

\* C25 (as stated): the sniffer reports the first packet of each kind, so a frame
\* that names two rooms (two CreateGame, or two JoinGame) is bridged to the room
\* the first of them names.
firstOf(pkts, code) ==
    LET I == {i \in 1 .. Len(pkts) : pkts[i].code = code}
    IN IF I = {} THEN NoLobby
       ELSE pkts[CHOOSE i \in I : \A j \in I : i <= j]

firstNamed(pkts) ==
    IF firstOf(pkts, CreateGame) # NoLobby THEN firstOf(pkts, CreateGame).name
    ELSE IF firstOf(pkts, JoinGame) # NoLobby THEN firstOf(pkts, JoinGame).name
    ELSE NoName

C25_FirstNameBridged ==
    [][\A buf \in SniffFrames(recvCount + 1) :
          ClientMessage(buf) =>
              \A e \in inflight' \ inflight :
                  e.kind = "bridge" => e.name = firstNamed(buf.pkts)]_vars

C25_LastNameBridged ==
    \E e \in inflight :
        /\ e.kind = "bridge"
        /\ e.first.pkts = <<PktCreate(0, NameA, PwNone, 2), PktCreate(0, NameB, PwNone, 2)>>
        /\ e.name = NameB
        /\ roomName = NameB

\* C26 (as stated): in the room every frame that fails to decode adds one to
\* the invalid counter of its connection and of no other, and dispatches
\* nothing; the connection stays open after its first and second such frame
\* and is closed with 1002 on its third.
Rejected(pkts) == pkts \in {Undecodable, DecodeThrows}

CountedAndClosedOnThird(ws) ==
    LET n == MapGet(invalidCounts, ws, 0) + 1
    IN /\ invalidCounts' = MapSet(invalidCounts, ws, n)
       /\ sent' = EmptyMap /\ dirCalls' = <<>>
       /\ UNCHANGED <<room, slots, bySocket, rateState>>
       /\ \A w \in RoomSockets \ {ws} : sock'[w] = sock[w]
       /\ n <= MAX_INVALID_PACKETS => (sock'[ws] = sock[ws] /\ closes' = EmptyMap)
       /\ n > MAX_INVALID_PACKETS =>
             /\ sock'[ws] = "closing"
             /\ sock[ws] = "open" => closes' = MapSet(EmptyMap, ws, 1002)

C26_DecodeFailuresCounted ==
    [][\A ws \in RoomSockets : \A pkts \in InvalidFrames(ws) :
          (Rejected(pkts) /\ WsMessage(ws, pkts, FALSE, TRUE, 7, TRUE))
              => CountedAndClosedOnThird(ws)]_vars

\* the same for the frames on which decodeTopLevel returns null
C26_NullFramesCounted ==
    [][\A ws \in RoomSockets :
          WsMessage(ws, Undecodable, FALSE, TRUE, 7, TRUE)
              => CountedAndClosedOnThird(ws)]_vars

\* C27 (as stated): whenever a frame brings the packets of its connection's
\* current window above 512, the first frame of a window included, the
\* connection is closed with 1008 and none of the frame's packets is dispatched.
InWindow(ws, pkts, expired) ==
    IF ws \in DOMAIN rateState /\ ~expired THEN rateState[ws] + Len(pkts)
    ELSE Len(pkts)

FloodClosed(ws) ==
    /\ sock'[ws] = "closing"
    /\ sock[ws] = "open" => closes' = MapSet(EmptyMap, ws, 1008)
    /\ sent' = EmptyMap /\ dirCalls' = <<>>
    /\ UNCHANGED <<room, slots, bySocket>>

C27_FloodClosesConnection ==
    [][\A ws \in RoomSockets : \A pkts \in RateFrames : \A expired \in BOOLEAN :
          (WsMessage(ws, pkts, FALSE, expired, 7, TRUE)
           /\ InWindow(ws, pkts, expired) > MAX_MESSAGES_PER_WINDOW)
              => FloodClosed(ws)]_vars

\* the same for a frame that is not the first of its window
C27_LaterFramesGated ==
    [][\A ws \in RoomSockets : \A pkts \in RateFrames :
          (WsMessage(ws, pkts, FALSE, FALSE, 7, TRUE)
           /\ ws \in DOMAIN rateState
           /\ rateState[ws] + Len(pkts) > MAX_MESSAGES_PER_WINDOW)
              => FloodClosed(ws)]_vars

\* a window opened by a batch of 513 packets: all dispatched, the socket open
C27_FirstFrameOfWindowUngated ==
    /\ rateState = MapSet(EmptyMap, 1, MAX_MESSAGES_PER_WINDOW + 1)
    /\ sock[1] = "open"
    /\ bySocket[1].clientVersion = 2

\* C28: a DropPlayer from a connection that is not in slot 0 (not joined, or in
\* slot 1..3) closes the sender with 1008 (unless the room had closed its
\* socket already) with reason 0 stashed, sends nothing, and leaves the room,
\* the slots, the connection records, every other socket and the directory as
\* they were.
IsHost(ws) == ws \in DOMAIN bySocket /\ bySocket[ws].id = 0

C28_NonHostDropRejected ==
    [][\A ws \in PartySockets : \A thr \in BOOLEAN :
          (~IsHost(ws) /\ WsMessage(ws, <<PktDrop(0, 42)>>, FALSE, TRUE, 7, thr))
              => /\ sock'[ws] = "closing"
                 /\ closes' = IF sock[ws] = "open" THEN MapSet(EmptyMap, ws, 1008)
                               ELSE EmptyMap
                 /\ closeReason' = MapSet(closeReason, ws, 0)
                 /\ \A w \in PartySockets \ {ws} : sock'[w] = sock[w]
                 /\ sent' = EmptyMap
                 /\ dirCalls' = <<>>
                 /\ UNCHANGED <<room, slots, bySocket>>]_vars

\* a player in slot 2 has just been closed for a DropPlayer aimed at the host
C28_GuestDropRefused ==
    /\ \E ws \in DOMAIN closes :
          /\ closes[ws] = 1008
          /\ ws \in DOMAIN bySocket /\ bySocket[ws].id = 2
          /\ slots[2] # NoPlayer /\ slots[2].ws = ws
    /\ room # NoRoom
    /\ slots[0] # NoPlayer /\ sock[slots[0].ws] = "open"
    /\ slots[1] # NoPlayer

\* C29: when the close or the error event of a player in slot k >= 1 arrives,
\* every other connection that occupies a slot is sent exactly one packet,
\* Disconnect{id=k, reason} (it arrives unless the room had closed that
\* connection's socket), where reason is the value stashed for the leaving
\* socket, or 3 (close) or 0 (error) when nothing is stashed; nobody else is
\* sent anything; slot k is freed, the connection's record and stash are
\* dropped, the room stays, and one directory call is made: an upsert with one
\* player fewer.  The stash is r for the target of the host's
\* DropPlayer{id=k, reason=r}, 3 for a non-host sender of LeaveGame, and 0 for a
\* non-host sender of DropPlayer (closed with 1008).
IsGuest(ws) ==
    /\ ws \in DOMAIN bySocket
    /\ bySocket[ws].id >= 1
    /\ slots[bySocket[ws].id] # NoPlayer
    /\ slots[bySocket[ws].id].ws = ws

DepartureAnnounced(ws, dflt) ==
    LET k == bySocket[ws].id
        reason == MapGet(closeReason, ws, dflt)
        others == Players \ {ws}
    IN /\ DOMAIN sent' = others
       /\ \A w \in others :
             sent'[w] = <<[msg |-> [code |-> Disconnect, id |-> k, reason |-> reason],
                           ok |-> sock[w] = "open"]>>
       /\ slots' = [slots EXCEPT ![k] = NoPlayer]
       /\ bySocket' = MapDel(bySocket, ws)
       /\ closeReason' = MapDel(closeReason, ws)
       /\ sock' = [sock EXCEPT ![ws] = "none"]
       /\ closes' = EmptyMap
       /\ room # NoRoom /\ room' = room
       /\ dirCalls' = <<[op |-> "upsert", name |-> room.name, type |-> room.type,
                         slotsUsed |-> slotsUsed(slots) - 1,
                         slotsTotal |-> MAX_PLAYERS]>>

StashedOn(ws, pkt) ==
    CASE pkt.code = LeaveGame /\ ~IsHost(ws) ->
            closeReason' = MapSet(closeReason, ws, 3)
      [] pkt.code = DropPlayer /\ ~IsHost(ws) ->
            closeReason' = MapSet(closeReason, ws, 0)
      [] pkt.code = DropPlayer /\ IsHost(ws) /\ slots[pkt.id] # NoPlayer ->
            closeReason' = MapSet(closeReason, slots[pkt.id].ws, pkt.reason)
      [] OTHER -> TRUE

C29_DepartureAnnounced ==
    /\ [][\A ws \in PartySockets :
             /\ (IsGuest(ws) /\ WsClose(ws)) => DepartureAnnounced(ws, 3)
             /\ (IsGuest(ws) /\ WsError(ws)) => DepartureAnnounced(ws, 0)]_vars
    /\ [][closeReason' # closeReason =>
             \A ws \in PartySockets : \A pkt \in {PktLeave, PktDrop(1, 42)} :
                \A thr \in BOOLEAN :
                   WsMessage(ws, <<pkt>>, FALSE, TRUE, 7, thr) => StashedOn(ws, pkt)]_vars

\* the player the host dropped with reason 42 has gone: the host and the other
\* player were each sent Disconnect{1, 42}, and the directory an upsert for two
C29_DroppedPlayerGone ==
    /\ slots[0] # NoPlayer /\ slots[1] = NoPlayer /\ slots[2] # NoPlayer
    /\ DOMAIN sent = {slots[0].ws, slots[2].ws}
    /\ \A w \in DOMAIN sent :
          sent[w] = <<[msg |-> [code |-> Disconnect, id |-> 1, reason |-> 42],
                       ok |-> TRUE]>>
    /\ Len(dirCalls) = 1 /\ dirCalls[1].op = "upsert" /\ dirCalls[1].slotsUsed = 2

\* C30: when the player in slot s sends Turn{turn}, exactly one packet,
\* Turn{id=s, turn}, is sent to every other connection that occupies a slot (it
\* arrives unless the room has already closed that connection's socket) and
\* nothing to the sender or to a connection that has not joined; a Turn or a
\* Message from a connection that has not joined is sent to nobody; in both
\* cases the room, the slots, the connection records and the sockets stay as
\* they were and no directory call is made.
HasJoined(ws) == ws \in DOMAIN bySocket /\ bySocket[ws].id >= 0

RoomUntouched ==
    /\ UNCHANGED <<room, slots, bySocket, sock, closeReason, invalidCounts>>
    /\ closes' = EmptyMap
    /\ dirCalls' = <<>>

C30_TurnRelayed ==
    [][\A ws \in PartySockets : \A thr \in BOOLEAN :
          /\ (HasJoined(ws) /\ WsMessage(ws, <<PktTurn(70000)>>, FALSE, TRUE, 7, thr))
                => /\ DOMAIN sent' = Players \ {ws}
                   /\ \A w \in Players \ {ws} :
                         sent'[w] = <<[msg |-> [code |-> Turn, id |-> bySocket[ws].id,
                                                turn |-> 70000],
                                       ok |-> sock[w] = "open"]>>
                   /\ RoomUntouched
          /\ \A pkt \in {PktTurn(70000), PktMessage(255, Payload),
                          PktMessage(0, Payload)} :
                (~HasJoined(ws) /\ WsMessage(ws, <<pkt>>, FALSE, TRUE, 7, thr))
                   => (sent' = EmptyMap /\ RoomUntouched)]_vars

\* the player in slot 1 has just sent a turn: slots 0 and 2 were sent it
C30_TurnFromSlotOne ==
    /\ slots[0] # NoPlayer /\ slots[1] # NoPlayer /\ slots[2] # NoPlayer
    /\ DOMAIN sent = {slots[0].ws, slots[2].ws}
    /\ \A w \in DOMAIN sent :
          sent[w] = <<[msg |-> [code |-> Turn, id |-> 1, turn |-> 70000], ok |-> TRUE]>>

\* C31: when the player in slot s sends Message{id=t, payload} with t other than
\* 255, exactly one packet, Message{id=s, payload}, is sent to the connection
\* occupying slot t (it arrives unless the room has already closed that
\* connection's socket) and nothing to anyone else; when slot t is empty or t
\* is not a slot, nothing is sent at all; the room, the slots, the connection
\* records and the sockets stay as they were.
C31_MessageUnicast ==
    [][\A ws \in PartySockets : \A t \in UnicastTargets : \A thr \in BOOLEAN :
          (HasJoined(ws) /\ WsMessage(ws, <<PktMessage(t, Payload)>>, FALSE, TRUE, 7, thr))
             => /\ sent' = IF t \in SlotIds /\ slots[t] # NoPlayer
                            THEN MapSet(EmptyMap, slots[t].ws,
                                        <<[msg |-> [code |-> Message,
                                                    id |-> bySocket[ws].id,
                                                    payload |-> Payload],
                                           ok |-> sock[slots[t].ws] = "open"]>>)
                            ELSE EmptyMap
                /\ RoomUntouched]_vars

\* the player in slot 1 has just addressed slot 2: that player alone was sent it
C31_SlotOneToSlotTwo ==
    /\ slots[0] # NoPlayer /\ slots[1] # NoPlayer /\ slots[2] # NoPlayer
    /\ sent = MapSet(EmptyMap, slots[2].ws,
                     <<[msg |-> [code |-> Message, id |-> 1, payload |-> Payload],
                        ok |-> TRUE]>>)

\* C32 (as stated): a gateway connection opens at most one room-side socket,
\* and a Create/Join frame that arrives while the first room fetch is in
\* flight neither opens a second one nor replaces the first.
C32_OneRoomSocket == Len(doSockets) <= 1

\* two room fetches have resolved: both sockets are open, to different rooms,
\* and doWs is the second
C32_TwoRoomSocketsOpen ==
    /\ Len(doSockets) = 2
    /\ doSockets[1].state = "open" /\ doSockets[2].state = "open"
    /\ doSockets[1].name # doSockets[2].name
    /\ doWs = 2

\* C33 (as stated): once closeAll has run for a gateway connection, no frame is
\* forwarded to a room for it any more and none of its room-side sockets is
\* open, also when a room fetch that was in flight at the close succeeds later.
C33_NothingAfterClose ==
    [][closed =>
          \A i \in 1 .. Len(doSockets') :
             /\ doSockets'[i].state # "open"
             /\ i <= Len(doSockets) => doSockets'[i].got = doSockets[i].got
             /\ i > Len(doSockets) => doSockets'[i].got = <<>>]_vars

\* the connection is closed, its only room socket is open and was sent a frame
C33_BridgedAfterClose ==
    /\ closed
    /\ Len(doSockets) = 1
    /\ doSockets[1].state = "open"
    /\ Len(doSockets[1].got) = 1
    /\ doWs = 1

\* C34 (as stated): a frame that arrives before the connection is bridged, and
\* is not a GameList request alone, is kept for the room (queued, or carried by
\* the room fetch it starts) unless the connection closes; so a batch of
\* GameList with ClientInfo or CreateGame is not dropped.
Kept(g_pending, g_inflight, buf) ==
    \/ \E i \in 1 .. Len(g_pending) : g_pending[i] = buf
    \/ \E e \in g_inflight : e.kind = "bridge" /\ e.first = buf

C34_EarlyFramesKept ==
    [][\A buf \in EarlyFrames(recvCount + 1) :
          (/\ doWs = 0
           /\ ~closed
           /\ buf.pkts # <<PktGameList>>
           /\ ClientMessage(buf))
              => (closed' \/ Kept(pending', inflight', buf))]_vars

\* the same without the frames in which a GameList request occurs
C34_FramesWithoutListKept ==
    [][\A buf \in EarlyFrames(recvCount + 1) :
          (/\ doWs = 0
           /\ ~closed
           /\ \A i \in 1 .. Len(buf.pkts) : buf.pkts[i] # PktGameList
           /\ ClientMessage(buf))
              => (closed' \/ Kept(pending', inflight', buf))]_vars

\* C35 (as stated): the name in a room actor's RoomState, and the name of every
\* directory call it makes, is the name under which the gateway addressed the
\* actor.
C35_RoomNamedAsAddressed ==
    Len(doSockets) >= 1 =>
        /\ room # NoRoom => room.name = doSockets[1].name
        /\ \A i \in 1 .. Len(dirCalls) : dirCalls[i].name = doSockets[1].name

\* the actor addressed as "b" holds a room named "a" and upserts it as "a"
C35_RoomNamedOtherwise ==
    /\ Len(doSockets) = 1
    /\ doSockets[1].name = NameB
    /\ room # NoRoom /\ room.name = NameA
    /\ Len(dirCalls) = 1 /\ dirCalls[1].op = "upsert" /\ dirCalls[1].name = NameA

\* C36: in every reachable state of a room actor the slot table and the
\* connection table agree (slots[i] is empty or a record with id = i that is the
\* record bySocket holds for its socket, and every bySocket record with id >= 0
\* is the occupant of slots[id]), and in every step each slot that is vacated is
\* announced by exactly one Disconnect{id = slot} to every joined connection
\* other than the one whose close or error event the step is, no Disconnect is
\* sent for a slot that was not vacated, and the second event of a socket whose
\* error and close events both fire announces nothing.
TablesAgree ==
    /\ \A i \in SlotIds :
          slots[i] # NoPlayer =>
             /\ slots[i].id = i
             /\ slots[i].ws \in DOMAIN bySocket
             /\ bySocket[slots[i].ws] = slots[i]
    /\ \A w \in DOMAIN bySocket :
          /\ bySocket[w].ws = w
          /\ bySocket[w].id >= 0 =>
                /\ bySocket[w].id \in SlotIds
                /\ slots[bySocket[w].id] = bySocket[w]

Vacated(i) == slots[i] # NoPlayer /\ slots'[i] = NoPlayer

\* the step is the close or the error event of socket w: no other step takes a
\* socket to "none" or to "errored"
Ended(w) == sock'[w] # sock[w] /\ sock'[w] \in {"none", "errored"}

Disconnects(i, w) ==
    LET out == MapGet(sent', w, <<>>)
    IN Cardinality({n \in 1 .. Len(out) :
                      out[n].msg.code = Disconnect /\ out[n].msg.id = i})

C36_TablesAgreeOneDisconnect ==
    /\ []TablesAgree
    /\ [][\A i \in SlotIds : \A w \in PartySockets :
             Disconnects(i, w) =
                IF Vacated(i) /\ HasJoined(w) /\ ~Ended(w) THEN 1 ELSE 0]_vars
    /\ [][\A ws \in PartySockets :
             (HasJoined(ws) /\ Ended(ws)) => Vacated(bySocket[ws].id)]_vars
    /\ [][\A ws \in PartySockets :
             (sock[ws] = "errored" /\ Ended(ws))
                => /\ sent' = EmptyMap /\ dirCalls' = <<>>
                   /\ UNCHANGED <<room, slots, bySocket>>]_vars

\* the socket of the player in slot 1 has failed: its error event has freed the
\* slot and sent Disconnect{1, 0} once to the host and to the player in slot 2,
\* and its close event is still to come
C36_ErroredGuestAnnounced ==
    /\ \E ws \in PartySockets : sock[ws] = "errored" /\ ws \notin DOMAIN bySocket
    /\ slots[0] # NoPlayer /\ slots[1] = NoPlayer /\ slots[2] # NoPlayer
    /\ DOMAIN sent = {slots[0].ws, slots[2].ws}
    /\ \A w \in DOMAIN sent :
          sent[w] = <<[msg |-> [code |-> Disconnect, id |-> 1, reason |-> 0],
                       ok |-> TRUE]>>

====
